---------------------------- MODULE Spec2Model ----------------------------
(***************************************************************************)
(* A model of nimcity.py: the housing-market simulation (Council,          *)
(* Developer, District, Block, Residence, Unit, Household, Simulation).    *)
(*                                                                         *)
(* Conventions                                                             *)
(*  - Areas are integers counted in HALF square feet, because              *)
(*    Block.min_res_size() returns MIN_RES_SIZE * zoning / 2, which is a   *)
(*    half-integer for odd zoning levels.                                  *)
(*  - Money (unit values, household spending power, price per sqft) is an  *)
(*    exact number  (n / d) * (1 + INFLATION)^e , kept as the record       *)
(*    [n, d, e] with n/d in lowest terms.  Unit.update and                 *)
(*    Household.update multiply by (1 + INFLATION), i.e. add 1 to e;       *)
(*    Unit.spike multiplies n/d by (1 + spike).                            *)
(*  - A python reference that is False/None is 0; objects are numbered     *)
(*    from 1 in creation order.                                            *)
(*  - Every python list that the code appends to once per time step        *)
(*    (zoned_as, residences, value, occ, owned_by, housed, owns, has) is a *)
(*    sequence; x[-1] is Last(x).                                          *)
(***************************************************************************)
EXTENDS Integers, Sequences, FiniteSets, TLC

(***************************************************************************)
(* Program constants (nimcity.py lines 7-9).                               *)
(***************************************************************************)
BLOCK_SIZE == 51000
MIN_RES_SIZE == 425
\* INFLATION = 0.02, as the fraction n/d
INFLATION == [n |-> 2, d |-> 100]

(***************************************************************************)
(* Bounds of the model.                                                    *)
(***************************************************************************)
\* run() is followed for this many time steps
MaxStep == 2
\* the Council approves a construction only while fewer residences exist
MaxResidences == 3
\* arrivals stop once this many households exist
MaxHouseholds == 3
\* largest batch of households arriving at once
MaxArrivals == 1
\* floors and units drawn for a new residence are taken up to this
MaxUnitCount == 2
\* init_rounds_of_dev, the number of construction rounds in __init__
InitRoundsOfDev == 1
\* land for up to this many blocks is divided by create_blocks on its own
MaxBlocks == 4
\* up to this many districts are dealt blocks by create_districts on its own
MaxDistricts == 3
\* the market of a time step holds up to this many residences of four small units
MaxCheap == 6
\* up to this many well-off households arrive in such a time step
MaxRich == 4
\* the blocks of the land of such a market
MarketBlocks == 2
\* a residence constructed on its own stands on a block zoned up to this level
MaxLevel == 4
\* and has up to this many units
MaxUnitsBuilt == 6

(***************************************************************************)
(* Sequence and arithmetic helpers.                                        *)
(***************************************************************************)
Last(s) == s[Len(s)]

SetLast(s, v) == [s EXCEPT ![Len(s)] = v]

Range(s) == {s[i] : i \in 1..Len(s)}

RECURSIVE SeqSum(_)
SeqSum(s) == IF s = <<>> THEN 0 ELSE Head(s) + SeqSum(Tail(s))

RECURSIVE Flatten(_)
Flatten(ss) == IF ss = <<>> THEN <<>> ELSE Head(ss) \o Flatten(Tail(ss))

RECURSIVE Repeat(_, _)
Repeat(x, k) == IF k = 0 THEN <<>> ELSE <<x>> \o Repeat(x, k - 1)

\* list.remove that removes nothing (mutant)
Remove_Nothing(s, x) == s

\* s without the first occurrence of x (python list.remove)
RECURSIVE Remove(_, _)
Remove(s, x) ==
    IF s = <<>> THEN <<>>
    ELSE IF Head(s) = x THEN Tail(s) ELSE <<Head(s)>> \o Remove(Tail(s), x)

RECURSIVE GCD(_, _)
GCD(a, b) == IF b = 0 THEN a ELSE GCD(b, a % b)

RECURSIVE Pow(_, _)
Pow(b, k) == IF k = 0 THEN 1 ELSE b * Pow(b, k - 1)

(***************************************************************************)
(* Exact money arithmetic.                                                 *)
(***************************************************************************)
\* the fraction a/b in lowest terms
Frac(a, b) == LET g == GCD(a, b) IN [n |-> a \div g, d |-> b \div g]

Zero == [n |-> 0, d |-> 1, e |-> 0]

Money(a, b, k) == IF a = 0 THEN Zero ELSE [n |-> Frac(a, b).n, d |-> Frac(a, b).d, e |-> k]

\* 1 + INFLATION, in lowest terms (51/50)
Growth == Frac(INFLATION.d + INFLATION.n, INFLATION.d)

\* a/b <= c/d for a, c >= 0 and b, d > 0, by continued fractions (no products)
RECURSIVE FracLeq(_, _, _, _)
FracLeq(a, b, c, d) ==
    LET q1 == a \div b
        q2 == c \div d
        r1 == a % b
        r2 == c % d
    IN  IF q1 # q2 THEN q1 < q2
        ELSE IF r1 = 0 THEN TRUE
        ELSE IF r2 = 0 THEN FALSE
        ELSE FracLeq(d, r2, b, r1)

\* x <= y for two amounts of money
Leq(x, y) ==
    IF x.e >= y.e
    THEN FracLeq(x.n * Pow(Growth.n, x.e - y.e), x.d * Pow(Growth.d, x.e - y.e), y.n, y.d)
    ELSE FracLeq(x.n, x.d, y.n * Pow(Growth.n, y.e - x.e), y.d * Pow(Growth.d, y.e - x.e))

Lt(x, y) == ~Leq(y, x)

Same(x, y) == Leq(x, y) /\ Leq(y, x)

\* x + x * INFLATION
Inflate(x) == IF x.n = 0 THEN Zero ELSE [x EXCEPT !.e = @ + 1]

\* x + x * s for a fraction s = [n, d]
Spiked(x, s) == Money(x.n * (s.d + s.n), x.d * s.d, x.e)


(***************************************************************************)
(* Inputs of the driver (Simulation.__init__ arguments), drawn in Init.    *)
(***************************************************************************)
\* One choice of the arguments of Simulation.__init__:
\*   land (square feet); zoning (one dictionary {step: level} per district);
\*   price_sqft; has_avg; incomes, the multiples of has_avg that
\*   np.random.normal may draw; first, the largest pop_growth.pop() of __init__.
\* In turn: one block in one district that is rezoned upwards; one block in
\* one district that is rezoned downwards to an odd level; two blocks (and a
\* remainder of land) in two districts, one of them rezoned downwards late;
\* one block of single-family homes at 100 per 425 sqft with incomes 50 and 150;
\* two blocks in one district zoned 1 throughout; three blocks dealt to two
\* districts, both zoned 1 throughout.
Inputs ==
    { [land |-> BLOCK_SIZE,
       zoning |-> << [t \in {0, 1} |-> IF t = 0 THEN 1 ELSE 4] >>,
       price_sqft |-> Money(1, 1, 0), has_avg |-> Money(430, 1, 0),
       incomes |-> {1, 5}, first |-> MaxArrivals],
      [land |-> BLOCK_SIZE,
       zoning |-> << [t \in {0, 1} |-> IF t = 0 THEN 8 ELSE 5] >>,
       price_sqft |-> Money(1, 1, 0), has_avg |-> Money(430, 1, 0),
       incomes |-> {1, 5}, first |-> MaxArrivals],
      [land |-> 2 * BLOCK_SIZE + MIN_RES_SIZE,
       zoning |-> << [t \in {0} |-> 1], [t \in {0, 2} |-> IF t = 0 THEN 4 ELSE 1] >>,
       price_sqft |-> Money(1, 1, 0), has_avg |-> Money(430, 1, 0),
       incomes |-> {1, 5}, first |-> MaxArrivals],
      [land |-> BLOCK_SIZE,
       zoning |-> << [t \in {0} |-> 1] >>,
       price_sqft |-> Money(100, MIN_RES_SIZE, 0), has_avg |-> Money(50, 1, 0),
       incomes |-> {1, 3}, first |-> MaxArrivals + 1],
      [land |-> 2 * BLOCK_SIZE,
       zoning |-> << [t \in {0} |-> 1] >>,
       price_sqft |-> Money(1, 1, 0), has_avg |-> Money(430, 1, 0),
       incomes |-> {1}, first |-> MaxArrivals],
      [land |-> 3 * BLOCK_SIZE,
       zoning |-> << [t \in {0} |-> 1], [t \in {0} |-> 1] >>,
       price_sqft |-> Money(1, 1, 0), has_avg |-> Money(430, 1, 0),
       incomes |-> {1}, first |-> MaxArrivals] }

(***************************************************************************)
(* State.                                                                  *)
(***************************************************************************)
VARIABLES
    pc,                    \* the statement of __init__ / run / time_step reached
    step,                  \* Simulation.step
    zoning,                \* Simulation.zoning
    zoning_max,            \* Simulation.zoning_max
    sim_land,              \* the argument land of Simulation.__init__
    draws,                 \* what pop_growth and np.random.normal may yield
    districts,             \* Simulation.districts[-1]: District objects
    blocks,                \* Simulation.blocks[-1]: Block objects
    residence,             \* every Residence object ever created
    unit,                  \* every Unit object ever created
    household,             \* Simulation.households[-1]: Household objects
    residences_built,      \* Developer.residences_built
    residences_demolished, \* Developer.residences_demolished
    price_sqft,            \* Simulation.price_sqft
    has_avg,               \* Simulation.has_avg
    sim_residences,        \* Simulation.residences[-1]
    sim_units,             \* Simulation.units[-1]
    spike,                 \* local spike of time_step
    ceiling,               \* local ceiling of time_step
    todo,                  \* remaining iterations of the loop in progress
    r_acc,                 \* r_built / rs_demolished of the round in progress
    rounds,                \* rounds of development left in __init__
    moved_in,              \* households that called move_in in this step
    moved_out,             \* households that round_of_moving_out moved out in this step
    evicted,               \* households that evict_all moved out in this step
    approved               \* residences whose demolition was approved in this step

vars == << pc, step, sim_land, zoning, zoning_max, draws, districts, blocks, residence, unit,
           household, residences_built, residences_demolished, price_sqft,
           has_avg, sim_residences, sim_units, spike, ceiling, todo, r_acc,
           rounds, moved_in, moved_out, evicted, approved >>

(***************************************************************************)
(* Block.                                                                  *)
(***************************************************************************)
\* Block.__init__
NewBlock(size) ==
    [size |-> 2 * size, district |-> 0, zoned_as |-> <<>>, residences |-> << <<>> >>]

\* Block.min_res_size (in half square feet); 0 stands for the ValueError
min_res_size(b) ==
    IF Last(b.zoned_as) = 0 THEN 0
    ELSE IF Last(b.zoned_as) = 1 THEN 2 * MIN_RES_SIZE
    ELSE MIN_RES_SIZE * Last(b.zoned_as)

\* Block.area_built_on
area_built_on(b) ==
    SeqSum([i \in 1..Len(Last(b.residences)) |-> residence[Last(b.residences)[i]].size])

\* Block.area_avail
area_avail(b) == b.size - area_built_on(b)

\* Block.has_enough_area_to_build
has_enough_area_to_build(b) == area_avail(b) >= min_res_size(b)

\* Block.update that mirrors the block's own zoning forward (mutant)
BlockUpdate_OwnZoning(b) ==
    [b EXCEPT !.zoned_as = Append(@, Last(@)),
              !.residences = Append(@, Last(@))]

\* Block.update
BlockUpdate(b) ==
    [b EXCEPT !.zoned_as = Append(@, Last(districts[b.district].zoned_as)),
              !.residences = Append(@, Last(@))]

(***************************************************************************)
(* Simulation.create_blocks, create_districts, round_of_zoning.            *)
(***************************************************************************)
\* create_blocks that makes a smaller block of the land left over (mutant)
create_blocks_Remainder(land) ==
    [k \in 1..((land + BLOCK_SIZE - 1) \div BLOCK_SIZE) |->
        NewBlock(IF k * BLOCK_SIZE <= land THEN BLOCK_SIZE ELSE land % BLOCK_SIZE)]

\* Simulation.create_blocks
RECURSIVE create_blocks(_)
create_blocks(land) ==
    IF land > 0 /\ ~(BLOCK_SIZE > land)
    THEN <<NewBlock(BLOCK_SIZE)>> \o create_blocks(land - BLOCK_SIZE)
    ELSE <<>>

\* create_districts that gives every block to the first district (mutant)
AssignBlocks_FirstDistrict(i, nb, d, nd) == [k \in 1..nb |-> 1]

\* the while/for loops of create_districts: block i is given to district d,
\* d running over the districts again and again
RECURSIVE AssignBlocks(_, _, _, _)
AssignBlocks(i, nb, d, nd) ==
    IF i > nb THEN <<>>
    ELSE <<d>> \o AssignBlocks(i + 1, nb, IF d = nd THEN 1 ELSE d + 1, nd)

\* the district of every block after create_districts
create_districts(nb, nd) == AssignBlocks(1, nb, 1, nd)

\* round_of_zoning that zones a district once and copies its level ever
\* after, the zoning dictionary notwithstanding (mutant)
ZoneDistrict_Once(d, zs, t) ==
    IF d.zoned_as = <<>>
    THEN [d EXCEPT !.zoned_as = Append(@, zs[t])]
    ELSE [d EXCEPT !.zoned_as = Append(@, Last(@))]

\* Council.zone / the else branch of round_of_zoning, for one district
ZoneDistrict(d, zs, t) ==
    IF t \in DOMAIN zs
    THEN [d EXCEPT !.zoned_as = Append(@, zs[t])]
    ELSE [d EXCEPT !.zoned_as = Append(@, Last(@))]

\* Simulation.round_of_zoning at step t
round_of_zoning(ds, t) == [i \in 1..Len(ds) |-> ZoneDistrict(ds[i], zoning[i], t)]

\* max(set(z for z_dict in zoning for k, z in z_dict.items()))
RECURSIVE SetMax(_)
SetMax(S) ==
    LET x == CHOOSE y \in S : TRUE
    IN  IF S = {x} THEN x
        ELSE LET m == SetMax(S \ {x}) IN IF x > m THEN x ELSE m

ZoningMax(zn) == SetMax(UNION {{zn[i][t] : t \in DOMAIN zn[i]} : i \in 1..Len(zn)})

(***************************************************************************)
(* Init: the state of Simulation.__init__ when it is about to start its    *)
(* rounds of development (line 380): land is divided into blocks, blocks   *)
(* are dealt to districts, and the Council has zoned every district and    *)
(* block for step 0.                                                       *)
(***************************************************************************)
InitFrom(ins) ==
    \E in \in ins :
        LET zn == in.zoning
            bs == create_blocks(in.land)
            of == create_districts(Len(bs), Len(zn))
            ds == [i \in 1..Len(zn) |->
                      ZoneDistrict([zoned_as |-> <<>>,
                                    blocks |-> SelectSeq([j \in 1..Len(bs) |-> j],
                                                         LAMBDA j : of[j] = i)],
                                   zn[i], 0)]
        IN  /\ sim_land = in.land
            /\ zoning = zn
            /\ zoning_max = ZoningMax(zn)
            /\ districts = ds
            /\ blocks = [j \in 1..Len(bs) |->
                            [bs[j] EXCEPT !.district = of[j],
                                          !.zoned_as = <<Last(ds[of[j]].zoned_as)>>]]
            /\ draws = [incomes |-> in.incomes, first |-> in.first]
            /\ price_sqft = <<in.price_sqft>>
            /\ has_avg = <<in.has_avg>>
    /\ pc = "develop"
    /\ step = 0
    /\ residence = <<>>
    /\ unit = <<>>
    /\ household = <<>>
    /\ residences_built = <<>>
    /\ residences_demolished = <<>>
    /\ sim_residences = <<>>
    /\ sim_units = <<>>
    /\ spike = [n |-> 0, d |-> 1]
    /\ ceiling = Zero
    /\ todo = <<>>
    /\ r_acc = <<>>
    /\ rounds = InitRoundsOfDev
    /\ moved_in = {}
    /\ moved_out = {}
    /\ evicted = {}
    /\ approved = {}

Init == InitFrom(Inputs)

(***************************************************************************)
(* Residence, Unit, Household.                                             *)
(***************************************************************************)
\* Residence.underzoned by the zoning the residence was built under (mutant)
underzoned_Vintage(r) == r.floors * r.floors < r.zoned_as

\* Residence.underzoned: floors < sqrt(block zoning)
underzoned(r) == r.floors * r.floors < Last(blocks[r.block].zoned_as)

\* Unit.__init__ for a unit of size (a / b) square feet
NewUnit(r, a, b, price) ==
    [residence |-> r,
     value |-> <<Money(a * price.n, b * price.d, price.e)>>,
     occ |-> <<0>>,
     owned_by |-> <<0>>]

\* Unit.update that starts the new entries of occ and owned_by empty (mutant)
UnitUpdate_Vacant(u) ==
    [u EXCEPT !.value = Append(@, Inflate(Last(@))),
              !.occ = Append(@, 0),
              !.owned_by = Append(@, 0)]

\* Unit.update
UnitUpdate(u) ==
    [u EXCEPT !.value = Append(@, Inflate(Last(@))),
              !.occ = Append(@, Last(@)),
              !.owned_by = Append(@, Last(@))]

\* Unit.spike
UnitSpike(u, s) == [u EXCEPT !.value = SetLast(@, Spiked(Last(@), s))]

\* Household.__init__
NewHousehold(has, t) ==
    [arrived |-> t, housed |-> <<0>>, owns |-> <<0>>, has |-> <<has>>]

\* Household.update
HouseholdUpdate(h) ==
    [h EXCEPT !.housed = Append(@, Last(@)),
              !.owns = Append(@, Last(@)),
              !.has = Append(@, Inflate(Last(@)))]

\* Household.can_move_in
can_move_in(h, u) ==
    /\ Last(h.housed) = 0
    /\ Last(u.occ) = 0
    /\ Leq(Last(u.value), Last(h.has))

\* Household.must_move_out that does not spare the owners (mutant)
must_move_out_OwnersToo(h, U) ==
    /\ Last(h.housed) # 0
    /\ Lt(Last(h.has), Last(U[Last(h.housed)].value))

\* Household.must_move_out, U being the units
must_move_out(h, U) ==
    /\ Last(h.housed) # 0
    /\ Lt(Last(h.has), Last(U[Last(h.housed)].value))
    /\ Last(h.owns) = 0

\* Household.move_in that draws for ownership whatever the floors of the
\* residence (mutant)
UnitsAfterMoveIn_AnyFloors(U, i, j, own) ==
    [U EXCEPT ![j].occ = SetLast(@, i),
              ![j].owned_by = IF own THEN SetLast(@, i) ELSE @]

\* Household.move_in: the units after household i moves into unit j;
\* own is the outcome of the binomial draw for ownership
UnitsAfterMoveIn(U, i, j, own) ==
    [U EXCEPT ![j].occ = SetLast(@, i),
              ![j].owned_by = IF residence[U[j].residence].floors = 1 /\ own
                              THEN SetLast(@, i) ELSE @]

\* Household.move_in: the households after household i moves into unit j
HouseholdsAfterMoveIn(H, U, i, j, own) ==
    [H EXCEPT ![i].housed = SetLast(@, j),
              ![i].owns = IF residence[U[j].residence].floors = 1 /\ own
                          THEN SetLast(@, j) ELSE @]

\* Household.move_out that leaves the unit's owner in place (mutant)
UnitsAfterMoveOut_OwnerKept(U, H, i) ==
    [U EXCEPT ![Last(H[i].housed)].occ = SetLast(@, 0)]

\* Household.move_out: the units after household i moves out
UnitsAfterMoveOut(U, H, i) ==
    LET j == Last(H[i].housed)
        o == Last(H[i].owns)
        U1 == [U EXCEPT ![j].occ = SetLast(@, 0)]
    IN  IF o # 0 THEN [U1 EXCEPT ![o].owned_by = SetLast(@, 0)] ELSE U1

\* Household.move_out that leaves the household the owner of its unit (mutant)
HouseholdsAfterMoveOut_StillOwns(H, i) ==
    [H EXCEPT ![i].housed = SetLast(@, 0)]

\* Household.move_out that leaves the household marked as housed (mutant)
HouseholdsAfterMoveOut_StillHoused(H, i) ==
    [H EXCEPT ![i].owns = SetLast(@, 0)]

\* Household.move_out: the households after household i moves out
HouseholdsAfterMoveOut(H, i) ==
    [H EXCEPT ![i].housed = SetLast(@, 0),
              ![i].owns = SetLast(@, 0)]

(***************************************************************************)
(* Developer.build and Simulation.round_of_developing.                     *)
(***************************************************************************)
\* max_res_size of Developer.build (lines 70-80), in half square feet
max_res_size(b) ==
    LET m == min_res_size(b) * (5 * Last(b.zoned_as))
    IN  IF m > area_avail(b)
        THEN IF 2 * area_avail(b) > b.size THEN b.size \div 2 ELSE area_avail(b)
        ELSE m

\* np.arange(lo, hi + 1): lo, lo + 1, ... while below hi + 1 (square feet),
\* i.e. lo + 2k < hi + 2 in half square feet
size_range(lo, hi) == {lo + 2 * k : k \in 0..((hi + 1 - lo) \div 2)}

\* the draws of np.random.choice(size_range) that are followed: the two ends
SizeDraws(lo, hi) ==
    IF hi + 2 <= lo THEN {} ELSE {lo, lo + 2 * ((hi + 1 - lo) \div 2)}

\* Residence.__init__ with np.arange(2, zoned_as + 2) (mutant)
FloorsOf_OneMore(z) == IF z = 1 THEN {1} ELSE 2..(z + 1)

\* Residence.__init__ line 175: 1 if zoned_as == 1, else any of np.arange(2, zoned_as + 1)
FloorsOf(z) == IF z = 1 THEN {1} ELSE 2..z

\* Residence.__init__: the floors that are followed
FloorDraws(z) == {f \in FloorsOf(z) : f <= MaxUnitCount}

\* Residence.create_units that divides a single-family home like any other (mutant)
UnitCountDraws_ByArea(size, floors, z) ==
    {c \in floors..((size * floors) \div (2 * MIN_RES_SIZE)) : c <= MaxUnitCount}

\* Residence.create_units lines 185-197: unit_count, for interior = size * floors:
\* 1 if zoned_as == 1, else any of np.arange(min_unit_count, max_unit_count + 1)
UnitCountsOf(size, floors, z) ==
    IF z = 1 THEN {1} ELSE floors..((size * floors) \div (2 * MIN_RES_SIZE))

\* Residence.create_units: the unit counts that are followed
UnitCountDraws(size, floors, z) == {c \in UnitCountsOf(size, floors, z) : c <= MaxUnitCount}

\* Council.approve_construction: the draws that are followed
ConstructionDraws == IF Len(residence) < MaxResidences THEN {TRUE, FALSE} ELSE {FALSE}

\* the filter of line 592-593
HasLandAvail(b) ==
    area_avail(b) > (IF Last(b.zoned_as) # 1 THEN MIN_RES_SIZE * Last(b.zoned_as)
                     ELSE 2 * MIN_RES_SIZE)

\* round_of_developing up to its loop: one entry of todo for each call of build
BeginDeveloping ==
    /\ pc = "develop"
    /\ todo' = Flatten([j \in 1..Len(blocks) |->
                          IF HasLandAvail(blocks[j]) THEN Repeat(j, zoning_max) ELSE <<>>])
    /\ r_acc' = <<>>
    /\ pc' = "build"
    /\ UNCHANGED << step, sim_land, zoning, zoning_max, draws, districts, blocks, residence, unit,
                    household, residences_built, residences_demolished, price_sqft,
                    has_avg, sim_residences, sim_units, spike, ceiling, rounds,
                    moved_in, moved_out, evicted, approved >>

\* Residence.__init__ with create_units, and line 89 of build
Construct(j, size, floors, count) ==
    LET r == Len(residence) + 1
        ids == [k \in 1..count |-> Len(unit) + k]
    IN  /\ residence' = Append(residence,
              [built |-> step, price_when_built |-> Last(price_sqft), demolished |-> -1,
               block |-> j, size |-> size, zoned_as |-> Last(blocks[j].zoned_as),
               floors |-> floors, units |-> ids])
        /\ unit' = unit \o [k \in 1..count |->
                               NewUnit(r, size * floors, 2 * count, Last(price_sqft))]
        /\ blocks' = [blocks EXCEPT ![j].residences = SetLast(@, Append(Last(@), r))]
        /\ r_acc' = Append(r_acc, r)

\* Developer.build, called once for the head of todo; an approved build asks
\* has_enough_area_to_build, whose call of min_res_size raises ValueError for
\* a block that is not zoned
Build ==
    /\ pc = "build"
    /\ todo # <<>>
    /\ todo' = Tail(todo)
    /\ LET j == Head(todo)
           b == blocks[j]
       IN  \E approval \in ConstructionDraws :
             IF approval /\ min_res_size(b) = 0
             THEN /\ pc' = "aborted"
                  /\ UNCHANGED << residence, unit, blocks, r_acc >>
             ELSE /\ pc' = pc
                  /\ IF approval /\ has_enough_area_to_build(b)
                     THEN \E size \in SizeDraws(min_res_size(b), max_res_size(b)) :
                          \E floors \in FloorDraws(Last(b.zoned_as)) :
                          \E count \in UnitCountDraws(size, floors, Last(b.zoned_as)) :
                              Construct(j, size, floors, count)
                     ELSE /\ r_acc' = Append(r_acc, 0)
                          /\ UNCHANGED << residence, unit, blocks >>
    /\ UNCHANGED << step, sim_land, zoning, zoning_max, draws, districts, household,
                    residences_built, residences_demolished, price_sqft, has_avg,
                    sim_residences, sim_units, spike, ceiling, rounds,
                    moved_in, moved_out, evicted, approved >>

\* [r for b in blocks for r in b.residences[-1]]
StandingResidences == Flatten([j \in 1..Len(blocks) |-> Last(blocks[j].residences)])

\* the first unit of each residence of rs alone (mutant)
UnitsOf_FirstOnly(rs) == [k \in 1..Len(rs) |-> residence[rs[k]].units[1]]

\* [u for r in residences for u in r.units[-1]]
UnitsOf(rs) == Flatten([k \in 1..Len(rs) |-> residence[rs[k]].units])

\* the end of round_of_developing (line 603) and what its caller does next:
\* __init__ lines 380-387, time_step lines 457-459
EndDeveloping ==
    /\ pc = "build"
    /\ todo = <<>>
    /\ LET rb == Append(residences_built, SelectSeq(r_acc, LAMBDA r : r # 0))
       IN  IF step = 0
           THEN /\ rounds' = rounds - 1
                /\ IF rounds > 1
                   THEN /\ pc' = "develop"
                        /\ residences_built' = rb
                        /\ UNCHANGED << sim_residences, sim_units >>
                   ELSE /\ pc' = "arrive"
                        /\ residences_built' = << Flatten(rb) >>
                        /\ sim_residences' = StandingResidences
                        /\ sim_units' = UnitsOf(StandingResidences)
           ELSE /\ pc' = "move_in"
                /\ residences_built' = rb
                /\ sim_residences' = StandingResidences
                /\ sim_units' = UnitsOf(StandingResidences)
                /\ UNCHANGED rounds
    /\ r_acc' = <<>>
    /\ UNCHANGED << step, sim_land, zoning, zoning_max, draws, districts, blocks, residence, unit,
                    household, residences_demolished, price_sqft, has_avg, spike,
                    ceiling, todo, moved_in, moved_out, evicted, approved >>

(***************************************************************************)
(* Arrivals: Simulation.create_households.                                 *)
(***************************************************************************)
\* np.random.normal(loc = has_avg, ...): the draws that are followed
Incomes(k) == Money(Last(has_avg).n * k, Last(has_avg).d, Last(has_avg).e)

\* __init__ lines 392-395 and time_step lines 450-452
Arrive ==
    /\ pc = "arrive"
    /\ \E n \in 0..(IF step = 0 THEN draws.first ELSE MaxArrivals) :
         /\ Len(household) + n <= MaxHouseholds
         /\ \E draw \in [1..n -> draws.incomes] :
              household' = household \o [i \in 1..n |-> NewHousehold(Incomes(draw[i]), step)]
    /\ pc' = IF step = 0 THEN "move_in" ELSE "develop"
    /\ UNCHANGED << step, sim_land, zoning, zoning_max, draws, districts, blocks, residence, unit,
                    residences_built, residences_demolished, price_sqft, has_avg,
                    sim_residences, sim_units, spike, ceiling, todo, r_acc, rounds,
                    moved_in, moved_out, evicted, approved >>

(***************************************************************************)
(* Simulation.round_of_moving_in and Simulation.match.                     *)
(***************************************************************************)
\* sorted(..., reverse = True) of a list of <<object, key>>: descending by key,
\* objects with equal keys staying in their order
RECURSIVE InsertDesc(_, _)
InsertDesc(s, x) ==
    IF s = <<>> THEN <<x>>
    ELSE IF Lt(Head(s)[2], x[2]) THEN <<x>> \o s
    ELSE <<Head(s)>> \o InsertDesc(Tail(s), x)

RECURSIVE SortedDesc(_)
SortedDesc(s) ==
    IF s = <<>> THEN <<>>
    ELSE InsertDesc(SortedDesc(SubSeq(s, 1, Len(s) - 1)), Last(s))

\* line 667: the vacant units, dearest first
UnitsAvailable ==
    LET vacant == SelectSeq(sim_units, LAMBDA u : Last(unit[u].occ) = 0)
        sorted == SortedDesc([k \in 1..Len(vacant) |->
                                 <<vacant[k], Last(unit[vacant[k]].value)>>])
    IN  [k \in 1..Len(sorted) |-> sorted[k][1]]

\* line 672 without the sort: the unhoused households as they arrived (mutant)
HouseholdsSeeking_Unsorted ==
    SelectSeq([i \in 1..Len(household) |-> i], LAMBDA i : Last(household[i].housed) = 0)

\* line 672 over the households of the step before: those that arrived in
\* this step are left out (mutant)
HouseholdsSeeking_Settled ==
    LET ids == [i \in 1..Len(household) |-> i]
        seeking == SelectSeq(ids, LAMBDA i : /\ Last(household[i].housed) = 0
                                             /\ (step = 0 \/ household[i].arrived < step))
        sorted == SortedDesc([k \in 1..Len(seeking) |->
                                 <<seeking[k], Last(household[seeking[k]].has)>>])
    IN  [k \in 1..Len(sorted) |-> sorted[k][1]]

\* line 672: the unhoused households, richest first
HouseholdsSeeking ==
    LET ids == [i \in 1..Len(household) |-> i]
        seeking == SelectSeq(ids, LAMBDA i : Last(household[i].housed) = 0)
        sorted == SortedDesc([k \in 1..Len(seeking) |->
                                 <<seeking[k], Last(household[seeking[k]].has)>>])
    IN  [k \in 1..Len(sorted) |-> sorted[k][1]]

\* line 678 without its filter: every vacant unit is kept (mutant)
AffordableUnits_All(ua, hh) == ua

\* line 678: the units the richest household can afford
AffordableUnits(ua, hh) ==
    SelectSeq(ua, LAMBDA u : Leq(Last(unit[u].value), Last(household[hh[1]].has)))

\* line 689 without its filter: every unhoused household is considered (mutant)
HouseholdsConsidered_All(ua, hh) == hh

\* line 689: the households that can afford the cheapest unit, no more than units
HouseholdsConsidered(ua, hh) ==
    LET keep == {k \in 1..Len(hh) :
                    /\ Leq(Last(unit[Last(ua)].value), Last(household[hh[k]].has))
                    /\ k - 1 < Len(ua)}
    IN  SelectSeq(hh, LAMBDA i : \E k \in keep : hh[k] = i)

\* Simulation.match that neither asks whether the household is housed nor pops
\* it: the first household takes every vacant unit it can afford (mutant)
RECURSIVE match_KeepsHead(_, _, _, _, _)
match_KeepsHead(hh, ua, U, H, own) ==
    IF ua = <<>> \/ hh = <<>> THEN [U |-> U, H |-> H, hh |-> hh]
    ELSE IF Last(U[Head(ua)].occ) = 0 /\ Leq(Last(U[Head(ua)].value), Last(H[Head(hh)].has))
    THEN match_KeepsHead(hh, Tail(ua),
                         UnitsAfterMoveIn(U, Head(hh), Head(ua), Head(hh) \in own),
                         HouseholdsAfterMoveIn(H, U, Head(hh), Head(ua), Head(hh) \in own),
                         own)
    ELSE match_KeepsHead(hh, Tail(ua), U, H, own)

\* Simulation.match that leaves its loop at the first unit the richest
\* household cannot take (mutant)
RECURSIVE match_StopsAtRefusal(_, _, _, _, _)
match_StopsAtRefusal(hh, ua, U, H, own) ==
    IF ua = <<>> \/ hh = <<>> THEN [U |-> U, H |-> H, hh |-> hh]
    ELSE IF can_move_in(H[Head(hh)], U[Head(ua)])
    THEN match_StopsAtRefusal(Tail(hh), Tail(ua),
               UnitsAfterMoveIn(U, Head(hh), Head(ua), Head(hh) \in own),
               HouseholdsAfterMoveIn(H, U, Head(hh), Head(ua), Head(hh) \in own),
               own)
    ELSE [U |-> U, H |-> H, hh |-> hh]

\* Simulation.match: the units U, the households H and the list hh when the
\* loop over ua ends; own holds the households whose ownership draw is 1
RECURSIVE match(_, _, _, _, _)
match(hh, ua, U, H, own) ==
    IF ua = <<>> \/ hh = <<>> THEN [U |-> U, H |-> H, hh |-> hh]
    ELSE IF can_move_in(H[Head(hh)], U[Head(ua)])
    THEN match(Tail(hh), Tail(ua),
               UnitsAfterMoveIn(U, Head(hh), Head(ua), Head(hh) \in own),
               HouseholdsAfterMoveIn(H, U, Head(hh), Head(ua), Head(hh) \in own),
               own)
    ELSE match(hh, Tail(ua), U, H, own)

\* line 702 alone: percent_unhoused as it is (mutant)
SpikeOf_Unclamped(remaining, considered) == Frac(remaining, considered)

\* lines 702-711: percent_unhoused clamped into [0.01, 0.2], 0 staying 0
SpikeOf(remaining, considered) ==
    IF remaining = 0 THEN [n |-> 0, d |-> 1]
    ELSE IF remaining * 100 < considered THEN [n |-> 1, d |-> 100]
    ELSE IF remaining * 5 > considered THEN [n |-> 1, d |-> 5]
    ELSE Frac(remaining, considered)

\* line 713: the largest spending power among hh_remaining
RECURSIVE MaxHas(_, _)
MaxHas(hh, H) ==
    IF hh = <<>> THEN Zero
    ELSE LET m == MaxHas(Tail(hh), H)
         IN  IF Leq(m, Last(H[Head(hh)].has)) THEN Last(H[Head(hh)].has) ELSE m

\* Household.move_in lines 298-300: the outcomes of np.random.binomial(1, own_p)
\* for the households hh, as the set of those that draw 1; there is a draw only
\* for a household that moves into a residence of one floor
OwnDraws(hh, ua) ==
    IF \E k \in 1..Len(ua) : residence[unit[ua[k]].residence].floors = 1
    THEN SUBSET Range(hh)
    ELSE {{}}

\* Simulation.round_of_moving_in; hh[0] of line 678 raises IndexError when
\* there are vacant units and no household is seeking
RoundOfMovingIn ==
    /\ pc = "move_in"
    /\ LET ua0 == UnitsAvailable
           hh0 == HouseholdsSeeking
       IN  IF ua0 # <<>> /\ hh0 = <<>>
           THEN /\ pc' = "aborted"
                /\ UNCHANGED << unit, household, spike, ceiling, moved_in >>
           ELSE /\ pc' = IF step = 0 THEN "print_stats" ELSE "move_out"
                /\ LET ua == IF ua0 = <<>> THEN <<>> ELSE AffordableUnits(ua0, hh0)
                       hh == IF ua = <<>> THEN <<>> ELSE HouseholdsConsidered(ua, hh0)
                   IN  IF ua = <<>> \/ hh = <<>>
                       THEN /\ spike' = [n |-> 0, d |-> 1]
                            /\ ceiling' = Zero
                            /\ UNCHANGED << unit, household, moved_in >>
                       ELSE \E own \in OwnDraws(hh, ua) :
                              LET m == match(hh, ua, unit, household, own)
                              IN  /\ unit' = m.U
                                  /\ household' = m.H
                                  /\ spike' = SpikeOf(Len(m.hh), Len(hh))
                                  /\ ceiling' = MaxHas(m.hh, m.H)
                                  /\ moved_in' = moved_in \cup (Range(hh) \ Range(m.hh))
    /\ UNCHANGED << step, sim_land, zoning, zoning_max, draws, districts, blocks, residence,
                    residences_built, residences_demolished, price_sqft, has_avg,
                    sim_residences, sim_units, todo, r_acc, rounds, moved_out, evicted, approved >>

(***************************************************************************)
(* Simulation.round_of_moving_out.                                         *)
(***************************************************************************)
\* the comprehension of lines 785-786 from household i on
RECURSIVE MoveOutFrom(_, _, _)
MoveOutFrom(i, U, H) ==
    IF i > Len(H) THEN [U |-> U, H |-> H, out |-> {}]
    ELSE IF Last(H[i].housed) # 0 /\ must_move_out(H[i], U)
    THEN LET rest == MoveOutFrom(i + 1, UnitsAfterMoveOut(U, H, i), HouseholdsAfterMoveOut(H, i))
         IN  [rest EXCEPT !.out = @ \cup {i}]
    ELSE MoveOutFrom(i + 1, U, H)

RoundOfMovingOut ==
    /\ pc = "move_out"
    /\ LET m == MoveOutFrom(1, unit, household)
       IN  /\ unit' = m.U
           /\ household' = m.H
           /\ moved_out' = moved_out \cup m.out
    /\ pc' = "demolish"
    /\ UNCHANGED << step, sim_land, zoning, zoning_max, draws, districts, blocks, residence,
                    residences_built, residences_demolished, price_sqft, has_avg,
                    sim_residences, sim_units, spike, ceiling, todo, r_acc, rounds,
                    moved_in, evicted, approved >>

(***************************************************************************)
(* Developer.demolish and Simulation.round_of_demolishing.                 *)
(***************************************************************************)
\* np.round(a / b, 0): to the nearest integer, halves to the even one
Round(a, b) ==
    LET q == a \div b
        r == a % b
    IN  IF 2 * r < b THEN q
        ELSE IF 2 * r > b THEN q + 1
        ELSE IF q % 2 = 0 THEN q ELSE q + 1

\* line 621: the underzoned residences standing on block j
ToDemolish(j) ==
    SelectSeq(Last(blocks[j].residences), LAMBDA r : underzoned(residence[r]))

\* lines 635-640 without dem_max: demolish is called for every underzoned residence (mutant)
DemolitionRange_All(j) == ToDemolish(j)

\* lines 635-640: the residences of block j that demolish is called for
DemolitionRange(j) ==
    LET r_list == ToDemolish(j)
        dem_max == Round(zoning_max, Last(blocks[j].zoned_as))
    IN  IF r_list = <<>> THEN <<>>
        ELSE SubSeq(r_list, 1, IF Len(r_list) > dem_max THEN dem_max ELSE Len(r_list))

\* round_of_demolishing up to its calls of demolish
BeginDemolishing ==
    /\ pc = "demolish"
    /\ r_acc' = <<>>
    /\ IF \A j \in 1..Len(blocks) : ToDemolish(j) = <<>>
       THEN /\ pc' = "spike"
            /\ todo' = <<>>
       ELSE /\ pc' = "demolishing"
            /\ todo' = Flatten([j \in 1..Len(blocks) |-> DemolitionRange(j)])
    /\ UNCHANGED << step, sim_land, zoning, zoning_max, draws, districts, blocks, residence, unit,
                    household, residences_built, residences_demolished, price_sqft,
                    has_avg, sim_residences, sim_units, spike, ceiling, rounds,
                    moved_in, moved_out, evicted, approved >>

\* Developer.evict_all that moves out the occupant of the first unit alone (mutant)
EvictAll_FirstUnit(us, U, H) ==
    IF us = <<>> \/ Last(U[Head(us)].occ) = 0 THEN [U |-> U, H |-> H, out |-> {}]
    ELSE LET i == Last(U[Head(us)].occ)
         IN  [U |-> UnitsAfterMoveOut(U, H, i), H |-> HouseholdsAfterMoveOut(H, i), out |-> {i}]

\* Developer.evict_all over the units us of a residence
RECURSIVE EvictAll(_, _, _)
EvictAll(us, U, H) ==
    IF us = <<>> THEN [U |-> U, H |-> H, out |-> {}]
    ELSE IF Last(U[Head(us)].occ) # 0
    THEN LET i == Last(U[Head(us)].occ)
             rest == EvictAll(Tail(us), UnitsAfterMoveOut(U, H, i),
                              HouseholdsAfterMoveOut(H, i))
         IN  [rest EXCEPT !.out = @ \cup {i}]
    ELSE EvictAll(Tail(us), U, H)

\* Council.approve_demolition: the draws that are followed
DemolitionDraws == {TRUE, FALSE}

\* Developer.demolish that evicts before it asks the Council: the households
\* of a residence whose demolition is denied are moved out all the same (mutant)
DemolitionDenied_Evicted(r) ==
    LET m == EvictAll(residence[r].units, unit, household)
    IN  /\ unit' = m.U
        /\ household' = m.H
        /\ evicted' = evicted \cup m.out
        /\ UNCHANGED << approved, blocks, residence >>

\* Developer.demolish when demolition_approved is False: line 64 alone
DemolitionDenied(r) == UNCHANGED << unit, household, evicted, approved, blocks, residence >>

\* Developer.demolish, called once for the head of todo
Demolish ==
    /\ pc = "demolishing"
    /\ todo # <<>>
    /\ todo' = Tail(todo)
    /\ r_acc' = Append(r_acc, Head(todo))
    /\ LET r == Head(todo)
       IN  \E approval \in DemolitionDraws :
             IF approval
             THEN LET m == EvictAll(residence[r].units, unit, household)
                  IN  /\ unit' = m.U
                      /\ household' = m.H
                      /\ evicted' = evicted \cup m.out
                      /\ approved' = approved \cup {r}
                      /\ blocks' = [blocks EXCEPT ![residence[r].block].residences =
                                       SetLast(@, Remove(Last(@), r))]
                      /\ residence' = [residence EXCEPT ![r].demolished = step]
             ELSE DemolitionDenied(r)
    /\ UNCHANGED << pc, step, sim_land, zoning, zoning_max, draws, districts, residences_built,
                    residences_demolished, price_sqft, has_avg, sim_residences,
                    sim_units, spike, ceiling, rounds, moved_in, moved_out >>

\* lines 645-647: what demolish returned is appended to residences_demolished
EndDemolishing ==
    /\ pc = "demolishing"
    /\ todo = <<>>
    /\ residences_demolished' = Append(residences_demolished, r_acc)
    /\ r_acc' = <<>>
    /\ pc' = "spike"
    /\ UNCHANGED << step, sim_land, zoning, zoning_max, draws, districts, blocks, residence, unit,
                    household, residences_built, price_sqft, has_avg, sim_residences,
                    sim_units, spike, ceiling, todo, rounds, moved_in, moved_out,
                    evicted, approved >>

(***************************************************************************)
(* Simulation.respond_to_demand.                                           *)
(***************************************************************************)
\* line 764 without the ceiling: the units of every residence are spiked (mutant)
PricesToSpike_All == sim_residences

\* line 764: the residences whose first unit is valued at or below the ceiling
PricesToSpike ==
    SelectSeq(sim_residences,
              LAMBDA r : Leq(Last(unit[residence[r].units[1]].value), ceiling))

RespondToDemand ==
    /\ pc = "spike"
    /\ IF spike.n # 0 /\ ceiling.n # 0
       THEN /\ unit' = [u \in 1..Len(unit) |->
                           IF unit[u].residence \in Range(PricesToSpike)
                           THEN UnitSpike(unit[u], spike) ELSE unit[u]]
            /\ price_sqft' = SetLast(price_sqft, Spiked(Last(price_sqft), spike))
       ELSE UNCHANGED << unit, price_sqft >>
    /\ pc' = "print_stats"
    /\ UNCHANGED << step, sim_land, zoning, zoning_max, draws, districts, blocks, residence,
                    household, residences_built, residences_demolished, has_avg,
                    sim_residences, sim_units, spike, ceiling, todo, r_acc, rounds,
                    moved_in, moved_out, evicted, approved >>

(***************************************************************************)
(* Simulation.run and the head of Simulation.time_step.                    *)
(***************************************************************************)
\* run: step += 1; time_step lines 411-414: round_of_zoning
StartStep ==
    /\ pc = "idle"
    /\ step < MaxStep
    /\ step' = step + 1
    /\ districts' = round_of_zoning(districts, step + 1)
    /\ pc' = "update_blocks"
    /\ moved_in' = {}
    /\ moved_out' = {}
    /\ evicted' = {}
    /\ approved' = {}
    /\ UNCHANGED << sim_land, zoning, zoning_max, draws, blocks, residence, unit, household,
                    residences_built, residences_demolished, price_sqft, has_avg,
                    sim_residences, sim_units, spike, ceiling, todo, r_acc, rounds >>

\* time_step line 417
UpdateBlocks ==
    /\ pc = "update_blocks"
    /\ blocks' = [j \in 1..Len(blocks) |-> BlockUpdate(blocks[j])]
    /\ pc' = "update_units"
    /\ UNCHANGED << step, sim_land, zoning, zoning_max, draws, districts, residence, unit, household,
                    residences_built, residences_demolished, price_sqft, has_avg,
                    sim_residences, sim_units, spike, ceiling, todo, r_acc, rounds,
                    moved_in, moved_out, evicted, approved >>

\* the units visited by lines 423-426, in order, a unit once for each visit
UnitsToUpdate == UnitsOf(StandingResidences) \o UnitsOf(Flatten(residences_demolished))

RECURSIVE UpdateAll(_, _)
UpdateAll(us, U) ==
    IF us = <<>> THEN U
    ELSE UpdateAll(Tail(us), [U EXCEPT ![Head(us)] = UnitUpdate(@)])

\* time_step lines 423-426
UpdateUnits ==
    /\ pc = "update_units"
    /\ unit' = UpdateAll(UnitsToUpdate, unit)
    /\ pc' = "update_households"
    /\ UNCHANGED << step, sim_land, zoning, zoning_max, draws, districts, blocks, residence, household,
                    residences_built, residences_demolished, price_sqft, has_avg,
                    sim_residences, sim_units, spike, ceiling, todo, r_acc, rounds,
                    moved_in, moved_out, evicted, approved >>

\* time_step lines 434-437
UpdateHouseholds ==
    /\ pc = "update_households"
    /\ household' = [i \in 1..Len(household) |-> HouseholdUpdate(household[i])]
    /\ pc' = "inflate"
    /\ UNCHANGED << step, sim_land, zoning, zoning_max, draws, districts, blocks, residence, unit,
                    residences_built, residences_demolished, price_sqft, has_avg,
                    sim_residences, sim_units, spike, ceiling, todo, r_acc, rounds,
                    moved_in, moved_out, evicted, approved >>

\* time_step lines 441-444
InflatePrices ==
    /\ pc = "inflate"
    /\ price_sqft' = Append(price_sqft, Inflate(Last(price_sqft)))
    /\ has_avg' = Append(has_avg, Inflate(Last(has_avg)))
    /\ pc' = "arrive"
    /\ UNCHANGED << step, sim_land, zoning, zoning_max, draws, districts, blocks, residence, unit,
                    household, residences_built, residences_demolished,
                    sim_residences, sim_units, spike, ceiling, todo, r_acc, rounds,
                    moved_in, moved_out, evicted, approved >>

\* Simulation.print_stats, called at the end of __init__ and after every
\* time_step: its divisions by len(blocks), units_count and total_hh raise
\* ZeroDivisionError.  The locals spike and ceiling end with time_step.
PrintStats ==
    /\ pc = "print_stats"
    /\ pc' = IF Len(blocks) = 0 \/ Len(sim_units) = 0 \/ Len(household) = 0
             THEN "aborted" ELSE "idle"
    /\ spike' = [n |-> 0, d |-> 1]
    /\ ceiling' = Zero
    /\ UNCHANGED << step, sim_land, zoning, zoning_max, draws, districts, blocks, residence, unit,
                    household, residences_built, residences_demolished, price_sqft,
                    has_avg, sim_residences, sim_units, todo, r_acc, rounds,
                    moved_in, moved_out, evicted, approved >>

Next ==
    \/ BeginDeveloping
    \/ Build
    \/ EndDeveloping
    \/ Arrive
    \/ RoundOfMovingIn
    \/ RoundOfMovingOut
    \/ BeginDemolishing
    \/ Demolish
    \/ EndDemolishing
    \/ RespondToDemand
    \/ StartStep
    \/ UpdateBlocks
    \/ UpdateUnits
    \/ UpdateHouseholds
    \/ InflatePrices
    \/ PrintStats

Spec == Init /\ [][Next]_vars

(***************************************************************************)
(* The simulation with a zoning level of 0 in its zoning dictionaries: a   *)
(* district, and with it its blocks, that is not zoned.                    *)
(***************************************************************************)
\* arguments of Simulation.__init__: two blocks in two districts, the first
\* never zoned and the second rezoned upwards; one block in one district that
\* loses its zoning at step 1
UnzonedInputs ==
    { [land |-> 2 * BLOCK_SIZE,
       zoning |-> << [t \in {0} |-> 0], [t \in {0, 1} |-> IF t = 0 THEN 1 ELSE 4] >>,
       price_sqft |-> Money(1, 1, 0), has_avg |-> Money(430, 1, 0),
       incomes |-> {1, 5}, first |-> MaxArrivals],
      [land |-> BLOCK_SIZE,
       zoning |-> << [t \in {0, 1} |-> IF t = 0 THEN 1 ELSE 0] >>,
       price_sqft |-> Money(1, 1, 0), has_avg |-> Money(430, 1, 0),
       incomes |-> {1, 5}, first |-> MaxArrivals] }

InitUnzoned == InitFrom(UnzonedInputs)

SpecUnzoned == InitUnzoned /\ [][Next]_vars

(***************************************************************************)
(* A block that is nearly full: Simulation(land = BLOCK_SIZE, zoning =     *)
(* [{0: 8}], init_rounds_of_dev = 2, ...) when __init__ is about to start  *)
(* its second round of development (line 380).  The first round built      *)
(* residence 1 of 25500 sqft and residence 2 of a size that                *)
(* np.random.choice(size_range) may draw and that leaves the block with    *)
(* one square foot less than, exactly, or one square foot more than        *)
(* min_res_size() = 1700 sqft.                                             *)
(***************************************************************************)
\* the land left by the first round, in half square feet
LeftDraws == {8 * MIN_RES_SIZE - 2, 8 * MIN_RES_SIZE, 8 * MIN_RES_SIZE + 2}

\* Residence.__init__ and create_units for the two residences: 2 floors and
\* 2 units each
NearlyFullResidences(left) ==
    [k \in 1..2 |->
        [built |-> 0, price_when_built |-> Money(1, 100, 0), demolished |-> -1,
         block |-> 1,
         size |-> IF k = 1 THEN BLOCK_SIZE ELSE BLOCK_SIZE - left,
         zoned_as |-> 8, floors |-> 2,
         units |-> <<2 * k - 1, 2 * k>>]]

NearlyFullUnits(left) ==
    [u \in 1..4 |->
        NewUnit((u + 1) \div 2,
                2 * NearlyFullResidences(left)[(u + 1) \div 2].size, 4,
                Money(1, 100, 0))]

InitNearlyFull ==
    /\ pc = "develop"
    /\ step = 0
    /\ sim_land = BLOCK_SIZE
    /\ zoning = << [t \in {0} |-> 8] >>
    /\ zoning_max = 8
    /\ draws = [incomes |-> {1, 5}, first |-> MaxArrivals]
    /\ districts = << [zoned_as |-> <<8>>, blocks |-> <<1>>] >>
    /\ \E left \in LeftDraws :
          /\ residence = NearlyFullResidences(left)
          /\ unit = NearlyFullUnits(left)
    /\ blocks = << [size |-> 2 * BLOCK_SIZE, district |-> 1, zoned_as |-> <<8>>,
                    residences |-> << <<1, 2>> >>] >>
    /\ household = <<>>
    /\ residences_built = << <<1, 2>> >>
    /\ residences_demolished = <<>>
    /\ price_sqft = << Money(1, 100, 0) >>
    /\ has_avg = << Money(430, 1, 0) >>
    /\ sim_residences = <<>>
    /\ sim_units = <<>>
    /\ spike = [n |-> 0, d |-> 1]
    /\ ceiling = Zero
    /\ todo = <<>>
    /\ r_acc = <<>>
    /\ rounds = 1
    /\ moved_in = {}
    /\ moved_out = {}
    /\ evicted = {}
    /\ approved = {}

SpecNearlyFull == InitNearlyFull /\ [][Next]_vars

(***************************************************************************)
(* The construction of one residence on its own, with every floor count    *)
(* that Residence.__init__ may draw: Simulation(land = BLOCK_SIZE, zoning  *)
(* = [{0: L, 1: MaxLevel + 1 - L}], ...) in the round of development of     *)
(* __init__, inside the last call of build for the block (the calls before *)
(* it were denied), at line 86: the construction is approved and the block *)
(* is empty.                                                               *)
(***************************************************************************)
InitResidence ==
    /\ pc = "construct"
    /\ step = 0
    /\ sim_land = BLOCK_SIZE
    /\ \E L \in 1..MaxLevel :
          /\ zoning = << [t \in {0, 1} |-> IF t = 0 THEN L ELSE MaxLevel + 1 - L] >>
          /\ districts = << [zoned_as |-> <<L>>, blocks |-> <<1>>] >>
          /\ blocks = << [size |-> 2 * BLOCK_SIZE, district |-> 1, zoned_as |-> <<L>>,
                          residences |-> << <<>> >>] >>
    /\ zoning_max = ZoningMax(zoning)
    /\ draws = [incomes |-> {1}, first |-> MaxArrivals]
    /\ residence = <<>>
    /\ unit = <<>>
    /\ household = <<>>
    /\ residences_built = <<>>
    /\ residences_demolished = <<>>
    /\ price_sqft = << Money(1, 1, 0) >>
    /\ has_avg = << Money(430, 1, 0) >>
    /\ sim_residences = <<>>
    /\ sim_units = <<>>
    /\ spike = [n |-> 0, d |-> 1]
    /\ ceiling = Zero
    /\ todo = <<1>>
    /\ r_acc = Repeat(0, zoning_max - 1)
    /\ rounds = InitRoundsOfDev
    /\ moved_in = {}
    /\ moved_out = {}
    /\ evicted = {}
    /\ approved = {}

\* Developer.build lines 83-90 for the head of todo: a size of size_range, and
\* Residence.__init__ with any floors and any unit_count up to MaxUnitsBuilt
ConstructAny ==
    /\ pc = "construct"
    /\ todo' = Tail(todo)
    /\ pc' = "build"
    /\ LET j == Head(todo)
           b == blocks[j]
       IN  \E size \in SizeDraws(min_res_size(b), max_res_size(b)) :
           \E floors \in FloorsOf(Last(b.zoned_as)) :
           \E count \in {c \in UnitCountsOf(size, floors, Last(b.zoned_as)) : c <= MaxUnitsBuilt} :
               Construct(j, size, floors, count)
    /\ UNCHANGED << step, sim_land, zoning, zoning_max, draws, districts, household,
                    residences_built, residences_demolished, price_sqft, has_avg,
                    sim_residences, sim_units, spike, ceiling, rounds,
                    moved_in, moved_out, evicted, approved >>

NextResidence ==
    \/ ConstructAny
    \/ Next

SpecResidence == InitResidence /\ [][NextResidence]_vars

(***************************************************************************)
(* The division of the land on its own: create_blocks and create_districts *)
(* of Simulation.__init__, for more land and more districts than Inputs.   *)
(***************************************************************************)
\* the argument land: whole blocks, and a little or nearly a block more
LandDraws ==
    {q * BLOCK_SIZE + r : q \in 0..MaxBlocks, r \in {0, 1, MIN_RES_SIZE, BLOCK_SIZE - 1}}

\* the argument zoning: one dictionary for each district
ZoningDraws == {[d \in 1..n |-> [t \in {0} |-> 1]] : n \in 1..MaxDistricts}

\* Simulation.__init__ up to its call of create_blocks
InitPartition ==
    /\ pc = "create_blocks"
    /\ step = 0
    /\ sim_land \in LandDraws
    /\ zoning \in ZoningDraws
    /\ zoning_max = ZoningMax(zoning)
    /\ draws = [incomes |-> {1}, first |-> 0]
    /\ districts = <<>>
    /\ blocks = <<>>
    /\ residence = <<>>
    /\ unit = <<>>
    /\ household = <<>>
    /\ residences_built = <<>>
    /\ residences_demolished = <<>>
    /\ price_sqft = <<Money(1, 1, 0)>>
    /\ has_avg = <<Money(430, 1, 0)>>
    /\ sim_residences = <<>>
    /\ sim_units = <<>>
    /\ spike = [n |-> 0, d |-> 1]
    /\ ceiling = Zero
    /\ todo = <<>>
    /\ r_acc = <<>>
    /\ rounds = InitRoundsOfDev
    /\ moved_in = {}
    /\ moved_out = {}
    /\ evicted = {}
    /\ approved = {}

\* __init__ lines 353-354
CreateBlocks ==
    /\ pc = "create_blocks"
    /\ blocks' = create_blocks(sim_land)
    /\ pc' = "create_districts"
    /\ UNCHANGED << step, sim_land, zoning, zoning_max, draws, districts, residence, unit,
                    household, residences_built, residences_demolished, price_sqft,
                    has_avg, sim_residences, sim_units, spike, ceiling, todo, r_acc,
                    rounds, moved_in, moved_out, evicted, approved >>

\* __init__ lines 359-371: create_districts, round_of_zoning, and the blocks
\* taking the zoning of their districts
CreateDistricts ==
    /\ pc = "create_districts"
    /\ LET of == create_districts(Len(blocks), Len(zoning))
           ds == [i \in 1..Len(zoning) |->
                     ZoneDistrict([zoned_as |-> <<>>,
                                   blocks |-> SelectSeq([j \in 1..Len(blocks) |-> j],
                                                        LAMBDA j : of[j] = i)],
                                  zoning[i], 0)]
       IN  /\ districts' = ds
           /\ blocks' = [j \in 1..Len(blocks) |->
                            [blocks[j] EXCEPT !.district = of[j],
                                              !.zoned_as = <<Last(ds[of[j]].zoned_as)>>]]
    /\ pc' = "develop"
    /\ UNCHANGED << step, sim_land, zoning, zoning_max, draws, residence, unit,
                    household, residences_built, residences_demolished, price_sqft,
                    has_avg, sim_residences, sim_units, spike, ceiling, todo, r_acc,
                    rounds, moved_in, moved_out, evicted, approved >>

NextPartition ==
    \/ CreateBlocks
    \/ CreateDistricts

SpecPartition == InitPartition /\ [][NextPartition]_vars

(***************************************************************************)
(* The market of time step 1 on its own, for more units and households     *)
(* than Inputs: Simulation(land = MarketBlocks * BLOCK_SIZE, zoning =       *)
(* [{0: 4}], price_sqft = 100 / 425, init_rounds_of_dev = 1, ...) in its    *)
(* first time_step, about to call round_of_moving_in (line 468).           *)
(*   __init__ built residence 1 (two units of 850 sqft, valued 200) and    *)
(* housed two households with 250 in it.  time_step 1 has updated them,    *)
(* has seen poor (50), middle (200) and rich (350) households arrive, and  *)
(* has built residence 2 (four units of 1275 sqft, valued 306) and cheap   *)
(* residences (four units of 425 sqft each, valued 102), four a block.     *)
(***************************************************************************)
CheapDraws == {0, 1, 4, MaxCheap}
RichDraws == 0..MaxRich
MiddleDraws == {0, 1, 16, 17, 4 * MaxCheap, 4 * MaxCheap + 1}
PoorDraws == {0, 1}

\* price_sqft of __init__ and of time step 1
MarketPrices == << Money(100, MIN_RES_SIZE, 0), Inflate(Money(100, MIN_RES_SIZE, 0)) >>

\* the block that residence k of the market was built on: build is called
\* zoning_max = 4 times for each block in a round of developing
MarketBlockOf(k) == IF k <= 2 THEN 1 ELSE ((k - 2) \div 4) + 1

\* the residences of the market: Residence.__init__ for sizes 850, 2550 and
\* 850 sqft (in half square feet) with 2 floors each
MarketResidences(c) ==
    [k \in 1..(2 + c) |->
        [built |-> IF k = 1 THEN 0 ELSE 1,
         price_when_built |-> IF k = 1 THEN MarketPrices[1] ELSE MarketPrices[2],
         demolished |-> -1,
         block |-> MarketBlockOf(k),
         size |-> IF k = 2 THEN 12 * MIN_RES_SIZE ELSE 4 * MIN_RES_SIZE,
         zoned_as |-> 4,
         floors |-> 2,
         units |-> IF k = 1 THEN <<1, 2>>
                   ELSE [i \in 1..4 |-> 2 + 4 * (k - 2) + i]]]

\* the units of the market: Residence.create_units, and for the two units of
\* residence 1 the move_in of __init__ and the update of time step 1
MarketUnits(c) ==
    [u \in 1..(6 + 4 * c) |->
        IF u <= 2
        THEN UnitUpdate([NewUnit(1, 8 * MIN_RES_SIZE, 4, MarketPrices[1])
                            EXCEPT !.occ = <<u>>])
        ELSE IF u <= 6
        THEN NewUnit(2, 24 * MIN_RES_SIZE, 8, MarketPrices[2])
        ELSE NewUnit(3 + ((u - 7) \div 4), 8 * MIN_RES_SIZE, 8, MarketPrices[2])]

\* the households of the market, in the order of their arrival
MarketHouseholds(r, m, p) ==
    [h \in 1..(2 + p + m + r) |->
        IF h <= 2
        THEN HouseholdUpdate([NewHousehold(Money(250, 1, 0), 0) EXCEPT !.housed = <<h>>])
        ELSE IF h <= 2 + p THEN NewHousehold(Money(50, 1, 0), 1)
        ELSE IF h <= 2 + p + m THEN NewHousehold(Money(200, 1, 0), 1)
        ELSE NewHousehold(Money(350, 1, 0), 1)]

\* the blocks of the market after Block.update and round_of_developing
MarketBlocksOf(c) ==
    [j \in 1..MarketBlocks |->
        [size |-> 2 * BLOCK_SIZE,
         district |-> 1,
         zoned_as |-> <<4, 4>>,
         residences |-> << IF j = 1 THEN <<1>> ELSE <<>>,
                           SelectSeq([k \in 1..(2 + c) |-> k],
                                     LAMBDA k : MarketBlockOf(k) = j) >>]]

\* time_step 1 when it is about to call round_of_moving_in
InitDemand ==
    /\ pc = "move_in"
    /\ step = 1
    /\ sim_land = MarketBlocks * BLOCK_SIZE
    /\ zoning = << [t \in {0} |-> 4] >>
    /\ zoning_max = 4
    /\ draws = [incomes |-> {1}, first |-> 2]
    /\ districts = << [zoned_as |-> <<4, 4>>, blocks |-> [j \in 1..MarketBlocks |-> j]] >>
    /\ \E c \in CheapDraws, r \in RichDraws, m \in MiddleDraws, p \in PoorDraws :
          /\ blocks = MarketBlocksOf(c)
          /\ residence = MarketResidences(c)
          /\ unit = MarketUnits(c)
          /\ household = MarketHouseholds(r, m, p)
          /\ residences_built = << <<1>>, [k \in 1..(1 + c) |-> k + 1] >>
          /\ sim_residences = [k \in 1..(2 + c) |-> k]
          /\ sim_units = [u \in 1..(6 + 4 * c) |-> u]
    /\ residences_demolished = <<>>
    /\ price_sqft = MarketPrices
    /\ has_avg = << Money(250, 1, 0), Inflate(Money(250, 1, 0)) >>
    /\ spike = [n |-> 0, d |-> 1]
    /\ ceiling = Zero
    /\ todo = <<>>
    /\ r_acc = <<>>
    /\ rounds = 0
    /\ moved_in = {}
    /\ moved_out = {}
    /\ evicted = {}
    /\ approved = {}

\* the rest of time_step (lines 468-486) and print_stats
NextDemand ==
    \/ RoundOfMovingIn
    \/ RoundOfMovingOut
    \/ BeginDemolishing
    \/ RespondToDemand
    \/ PrintStats

SpecDemand == InitDemand /\ [][NextDemand]_vars

(***************************************************************************)
(* The market of a time step that rezones.  The zoning dictionary of the   *)
(* district is {0: 4, 1: 8}: round_of_zoning of time step 1 has raised the *)
(* zoning to 8, the residences of time step 1 were built under it, and     *)
(* every residence of 2 floors is underzoned (2 * 2 < 8), so the round of  *)
(* demolishing of the step has residences to demolish.                     *)
(***************************************************************************)
\* the blocks of the market after round_of_zoning and Block.update
RenewalBlocksOf(c) ==
    [j \in 1..MarketBlocks |-> [MarketBlocksOf(c)[j] EXCEPT !.zoned_as = <<4, 8>>]]

\* the residences of the market: those of time step 1 record the zoning of 8
RenewalResidences(c) ==
    [k \in 1..(2 + c) |->
        IF k = 1 THEN MarketResidences(c)[k]
        ELSE [MarketResidences(c)[k] EXCEPT !.zoned_as = 8]]

\* time_step 1 when it is about to call round_of_moving_in
InitRenewal ==
    /\ pc = "move_in"
    /\ step = 1
    /\ sim_land = MarketBlocks * BLOCK_SIZE
    /\ zoning = << [t \in {0, 1} |-> IF t = 0 THEN 4 ELSE 8] >>
    /\ zoning_max = 8
    /\ draws = [incomes |-> {1}, first |-> 2]
    /\ districts = << [zoned_as |-> <<4, 8>>, blocks |-> [j \in 1..MarketBlocks |-> j]] >>
    /\ \E c \in CheapDraws, r \in RichDraws, m \in MiddleDraws, p \in PoorDraws :
          /\ blocks = RenewalBlocksOf(c)
          /\ residence = RenewalResidences(c)
          /\ unit = MarketUnits(c)
          /\ household = MarketHouseholds(r, m, p)
          /\ residences_built = << <<1>>, [k \in 1..(1 + c) |-> k + 1] >>
          /\ sim_residences = [k \in 1..(2 + c) |-> k]
          /\ sim_units = [u \in 1..(6 + 4 * c) |-> u]
    /\ residences_demolished = <<>>
    /\ price_sqft = MarketPrices
    /\ has_avg = << Money(250, 1, 0), Inflate(Money(250, 1, 0)) >>
    /\ spike = [n |-> 0, d |-> 1]
    /\ ceiling = Zero
    /\ todo = <<>>
    /\ r_acc = <<>>
    /\ rounds = 0
    /\ moved_in = {}
    /\ moved_out = {}
    /\ evicted = {}
    /\ approved = {}

\* the rest of time step 1 and the time steps after it
SpecRenewal == InitRenewal /\ [][Next]_vars

(***************************************************************************)
(* Properties.                                                             *)
(***************************************************************************)
Units == 1..Len(unit)
Households == 1..Len(household)
Residences == 1..Len(residence)
Blocks == 1..Len(blocks)

\* the statement right after round_of_moving_in has returned
AfterMovingIn == pc = "move_out" \/ (pc = "print_stats" /\ step = 0)

\* C1: every living-unit has at most one occupant household (one occupant
\* entry, and at most one household that says it is housed there), and a unit
\* whose current owner is set is owned by its current occupant.
C1_OneOccupantOwnerIsOccupant ==
    \A u \in Units :
        /\ Cardinality({h \in Households : Last(household[h].housed) = u}) <= 1
        /\ Last(unit[u].occ) \in {0} \cup Households
        /\ Last(unit[u].owned_by) # 0 => Last(unit[u].owned_by) = Last(unit[u].occ)

\* an owned unit and a rented unit side by side, after an owner was evicted
C1_Witness ==
    /\ pc = "idle"
    /\ \E u \in Units : Last(unit[u].owned_by) # 0
    /\ \E u \in Units : Last(unit[u].occ) # 0 /\ Last(unit[u].owned_by) = 0
    /\ \E h \in evicted : household[h].owns[Len(household[h].owns) - 1] # 0

\* C2: on every block the footprints of the standing residences add up to no
\* more than the size of the block.
C2_FootprintsWithinCapacity ==
    \A j \in Blocks : area_built_on(blocks[j]) <= blocks[j].size

\* C3: a household that moved in during a step is not moved out in that
\* step, neither by round_of_moving_out nor by a demolition.
C3_NoMoveInAndOutInOneStep == moved_in \cap (moved_out \cup evicted) = {}

ValueNow(u) == Last(unit[u].value)
HasNow(h) == Last(household[h].has)

\* the market of C4 before a round of moving in: exactly one vacant unit,
\* valued 100, and exactly two unhoused households, with 150 and with 50
VacantNow == {u \in Range(sim_units) : Last(unit[u].occ) = 0}
UnhousedNow == {h \in Households : Last(household[h].housed) = 0}

C4_Market ==
    /\ pc = "move_in"
    /\ Cardinality(VacantNow) = 1
    /\ \A u \in VacantNow : Same(ValueNow(u), Money(100, 1, 0))
    /\ Cardinality(UnhousedNow) = 2
    /\ \E r \in UnhousedNow : Same(HasNow(r), Money(150, 1, 0))
    /\ \E p \in UnhousedNow : Same(HasNow(p), Money(50, 1, 0))

\* what both readings of C4 agree on: the household with 150 is housed in
\* the unit, the household with 50 stays unhoused
C4_Housed ==
    \A r \in UnhousedNow, p \in UnhousedNow, u \in VacantNow :
        Same(HasNow(r), Money(150, 1, 0)) /\ Same(HasNow(p), Money(50, 1, 0)) =>
            /\ Last(household'[r].housed) = u
            /\ Last(unit'[u].occ) = r
            /\ Last(household'[p].housed) = 0

\* C4 (as claimed): with one vacant unit valued 100 and two unhoused
\* households with 150 and 50, a round of moving in houses the household with
\* 150, leaves the one with 50 unhoused, and returns spike 0.2 and ceiling 50.
C4_AsClaimed ==
    [][C4_Market => /\ C4_Housed
                    /\ spike' = [n |-> 1, d |-> 5]
                    /\ Same(ceiling', Money(50, 1, 0))]_vars

\* C4 (amended): with one vacant unit valued 100 and two unhoused households
\* with 150 and 50, a round of moving in houses the household with 150,
\* leaves the one with 50 unhoused, and returns spike 0 and ceiling 0: the
\* household with 50 cannot afford the unit and is not among the considered.
C4_SpikeAndCeilingZero ==
    [][C4_Market => /\ C4_Housed
                    /\ spike' = [n |-> 0, d |-> 1]
                    /\ ceiling' = Zero]_vars

\* the round of C4 has run: the unit valued 100 is taken by the household
\* with 150 while the household with 50 is unhoused
C4_Witness ==
    /\ AfterMovingIn
    /\ Len(sim_units) = 1
    /\ Len(household) = 2
    /\ \E r \in moved_in, p \in UnhousedNow :
        /\ Same(HasNow(r), Money(150, 1, 0))
        /\ Same(HasNow(p), Money(50, 1, 0))
        /\ Same(ValueNow(Last(household[r].housed)), Money(100, 1, 0))

\* C5: right after a round of moving in, no household that is still unhoused
\* has a strictly larger budget than a household housed in that round, and of
\* two households housed in the round the one with the larger budget did not
\* get a unit of strictly lower value.
C5_RicherFirst ==
    AfterMovingIn =>
        /\ \A h \in UnhousedNow, g \in moved_in : Leq(HasNow(h), HasNow(g))
        /\ \A g1 \in moved_in, g2 \in moved_in :
              Lt(HasNow(g2), HasNow(g1)) =>
                  Leq(ValueNow(Last(household[g2].housed)),
                      ValueNow(Last(household[g1].housed)))

\* a round housed two households of different budgets in units of different
\* values and left a poorer household unhoused
C5_Witness ==
    /\ AfterMovingIn
    /\ \E g1 \in moved_in, g2 \in moved_in :
          /\ Lt(HasNow(g2), HasNow(g1))
          /\ Lt(ValueNow(Last(household[g2].housed)), ValueNow(Last(household[g1].housed)))
    /\ \E h \in UnhousedNow, g \in moved_in : Lt(HasNow(h), HasNow(g))

\* C6: between time steps every unit's value, occ and owned_by lists have
\* step - built + 1 entries and every household's housed, owns and has lists
\* have step - arrived + 1 entries.
C6_OneEntryPerStep ==
    pc = "idle" =>
        /\ \A u \in Units :
              LET n == step - residence[unit[u].residence].built + 1
              IN  /\ Len(unit[u].value) = n
                  /\ Len(unit[u].occ) = n
                  /\ Len(unit[u].owned_by) = n
        /\ \A h \in Households :
              LET n == step - household[h].arrived + 1
              IN  /\ Len(household[h].housed) = n
                  /\ Len(household[h].owns) = n
                  /\ Len(household[h].has) = n

\* C7: the update of the units at the start of a step leaves every unit with
\* its value of the end of the step before, times (1 + INFLATION).
C7_InflatedOnce ==
    [][pc = "update_units" =>
          \A u \in Units : Same(Last(unit'[u].value), Inflate(ValueNow(u)))]_vars

\* C8: except between the zoning of the districts and the update of the
\* blocks, every block's current zoning is its district's current zoning, both
\* zoned_as lists have step + 1 entries, and a level that the zoning
\* dictionary gives for this step is the level of the district's blocks.
C8_BlocksFollowDistricts ==
    /\ \A d \in 1..Len(districts) : Len(districts[d].zoned_as) = step + 1
    /\ pc # "update_blocks" =>
          \A j \in Blocks :
              /\ Last(blocks[j].zoned_as) = Last(districts[blocks[j].district].zoned_as)
              /\ Len(blocks[j].zoned_as) = step + 1
              /\ step \in DOMAIN zoning[blocks[j].district] =>
                     Last(blocks[j].zoned_as) = zoning[blocks[j].district][step]

\* a block was rezoned in this step and construction is about to start
C8_Witness ==
    /\ pc = "develop"
    /\ step >= 1
    /\ \E j \in Blocks : blocks[j].zoned_as[step + 1] # blocks[j].zoned_as[step]

\* C9: the demolition step of a residence, once set, is greater than the step
\* the residence was built in.
C9_NotDemolishedWhenBuilt ==
    \A r \in Residences :
        residence[r].demolished # -1 => residence[r].demolished > residence[r].built

\* C10: when round_of_demolishing has made its calls, every residence whose
\* demolition was approved in this step has all its units vacant and without
\* owner, is not among the residences standing on its block, and has this step
\* as its demolition step; every household evicted from it is unhoused and
\* owns nothing.
C10_DemolishedAndEmptied ==
    pc = "spike" =>
        /\ \A r \in approved :
              /\ residence[r].demolished = step
              /\ r \notin Range(Last(blocks[residence[r].block].residences))
              /\ \A k \in 1..Len(residence[r].units) :
                    /\ Last(unit[residence[r].units[k]].occ) = 0
                    /\ Last(unit[residence[r].units[k]].owned_by) = 0
        /\ \A h \in evicted :
              /\ Last(household[h].housed) = 0
              /\ Last(household[h].owns) = 0

\* a residence was demolished in this step and an owner and a tenant were
\* evicted from it or from another one
C10_Witness ==
    /\ pc = "spike"
    /\ approved # {}
    /\ \E h \in evicted : household[h].owns[Len(household[h].owns) - 1] # 0

Min(a, b) == IF a < b THEN a ELSE b

\* the residences of block j whose demolition was approved in this step
ApprovedOn(j) == {r \in approved : residence[r].block = j}

\* the number of residences of block j that were standing and underzoned when
\* the round of demolishing of this step began
EligibleAtStart(j) == Len(ToDemolish(j)) + Cardinality(ApprovedOn(j))

\* the number of calls of demolish in this round for residences of block j
RequestedOn(j) == Len(SelectSeq(r_acc \o todo, LAMBDA r : residence[r].block = j))

\* C11: in a round of demolishing, for every block with an underzoned standing
\* residence, demolish is called for min(number of underzoned residences of
\* the block, round(zoning_max / zoning of the block)) residences, and no more
\* residences than that are demolished on the block.
C11_DemolitionsCapped ==
    pc = "demolishing" =>
        \A j \in Blocks :
            LET cap == Min(EligibleAtStart(j), Round(zoning_max, Last(blocks[j].zoned_as)))
            IN  EligibleAtStart(j) > 0 =>
                    /\ RequestedOn(j) = cap
                    /\ Cardinality(ApprovedOn(j)) <= cap

\* a round has made all its calls on a block with three underzoned residences
\* of which only two could be demolished, and both were
C11_Witness ==
    /\ pc = "demolishing"
    /\ todo = <<>>
    /\ \E j \in Blocks :
          /\ EligibleAtStart(j) = 3
          /\ RequestedOn(j) = 2
          /\ Cardinality(ApprovedOn(j)) = 2

\* the scenario of C12 in the current step: residence r has one floor, was
\* built before this step and stands on a block that was zoned 1 in the step
\* before and whose district the zoning dictionary rezones to 4 in this step
C12_Rezoned(r) ==
    LET b == blocks[residence[r].block]
    IN  /\ step >= 1
        /\ residence[r].floors = 1
        /\ residence[r].built < step
        /\ r \in Range(Last(b.residences))
        /\ b.zoned_as[step] = 1
        /\ step \in DOMAIN zoning[b.district]
        /\ zoning[b.district][step] = 4

\* C12 (as claimed): a one-floor residence on a block zoned 1 whose district
\* is rezoned to 4 at step t is not eligible for demolition in the round of
\* demolishing of step t (it becomes eligible in step t + 1).
C12_AsClaimed ==
    pc = "demolish" =>
        \A r \in Residences :
            C12_Rezoned(r) => r \notin Range(ToDemolish(residence[r].block))

\* C12 (amended): a one-floor residence on a block zoned 1 whose district is
\* rezoned to 4 at step t is eligible for demolition already in the round of
\* demolishing of step t, the block having copied the new level at the start
\* of the step; by the block's level of step t - 1 it was not underzoned.
C12_EligibleInStepOfRezoning ==
    pc = "demolish" =>
        \A r \in Residences :
            C12_Rezoned(r) =>
                /\ r \in Range(ToDemolish(residence[r].block))
                /\ ~(residence[r].floors * residence[r].floors
                        < blocks[residence[r].block].zoned_as[step])

\* a one-floor residence built at step 0 on a block zoned 1 was demolished in
\* step 1, the step that rezoned the block to 4
C12_Witness ==
    /\ pc = "demolishing"
    /\ \E r \in approved :
          /\ residence[r].floors = 1
          /\ residence[r].built < step
          /\ residence[r].demolished = step
          /\ blocks[residence[r].block].zoned_as[step] = 1
          /\ Last(blocks[residence[r].block].zoned_as) = 4
          /\ zoning[blocks[residence[r].block].district][step] = 4

\* the calls of build that round_of_developing is about to make on block j
AttemptsOn(j) == Len(SelectSeq(todo, LAMBDA k : k = j))

\* C13: when a round of developing starts its calls of build, a block zoned at
\* zoning_max gets one call, a block zoned 1 gets zoning_max calls, and two
\* blocks with different zoning levels get different numbers of calls.
C13_AttemptsInverseToZoning ==
    pc = "build" /\ r_acc = <<>> =>
        \A j \in Blocks :
            AttemptsOn(j) > 0 =>
                /\ Last(blocks[j].zoned_as) = zoning_max => AttemptsOn(j) = 1
                /\ Last(blocks[j].zoned_as) = 1 => AttemptsOn(j) = zoning_max
                /\ \A k \in Blocks :
                      /\ AttemptsOn(k) > 0
                      /\ Last(blocks[k].zoned_as) # Last(blocks[j].zoned_as)
                      => AttemptsOn(k) # AttemptsOn(j)

\* the scenario of C14: land for exactly two blocks, one district, zoned 1
C14_Scenario ==
    /\ sim_land = 2 * BLOCK_SIZE
    /\ zoning = << [t \in {0} |-> 1] >>

\* __init__ has run its first round of developing and no other
AfterFirstRound ==
    /\ step = 0
    /\ rounds = InitRoundsOfDev - 1
    /\ pc \in {"develop", "arrive"}

\* every residence standing on block j has one unit and a footprint between
\* the minimum size of zoning 1 and the size of the block (half square feet)
C14_SingleUnitResidences(j) ==
    \A k \in 1..Len(Last(blocks[j].residences)) :
        LET r == residence[Last(blocks[j].residences)[k]]
        IN  /\ Len(r.units) = 1
            /\ 2 * MIN_RES_SIZE <= r.size
            /\ r.size <= 2 * BLOCK_SIZE

\* C14 (as claimed): with land of twice BLOCK_SIZE and one district zoned 1
\* there are 2 blocks in 1 district, and after one round of developing each
\* block holds exactly one residence, of one unit, sized between the minimum
\* of zoning 1 and the size of the block.
C14_AsClaimed ==
    C14_Scenario =>
        /\ Len(blocks) = 2
        /\ Len(districts) = 1
        /\ AfterFirstRound =>
              \A j \in Blocks :
                  /\ Len(Last(blocks[j].residences)) = 1
                  /\ C14_SingleUnitResidences(j)

\* C14 (amended): with land of twice BLOCK_SIZE and one district zoned 1 there
\* are 2 blocks in 1 district, and after one round of developing each block
\* holds at most one residence (none where the council refused the
\* construction); every residence has one unit and is sized between the
\* minimum of zoning 1 and the size of the block.
C14_AtMostOneSingleUnitResidence ==
    C14_Scenario =>
        /\ Len(blocks) = 2
        /\ Len(districts) = 1
        /\ \A j \in Blocks : blocks[j].district = 1
        /\ AfterFirstRound =>
              \A j \in Blocks :
                  /\ Len(Last(blocks[j].residences)) <= 1
                  /\ C14_SingleUnitResidences(j)

\* the round built one single-family home on each of the two blocks, the
\* smallest possible on one and the largest possible on the other
C14_Witness ==
    /\ C14_Scenario
    /\ AfterFirstRound
    /\ \A j \in Blocks : Len(Last(blocks[j].residences)) = 1
    /\ \E i \in Blocks, j \in Blocks :
          residence[Last(blocks[i].residences)[1]].size
              < residence[Last(blocks[j].residences)[1]].size

\* C15: create_blocks ends and makes sim_land \div BLOCK_SIZE blocks (none
\* when the land is less than one block), every one of size BLOCK_SIZE; the
\* land left over is dropped and no smaller block is made.
C15_WholeBlocksOnly ==
    pc \in {"create_districts", "develop"} =>
        /\ Len(blocks) = sim_land \div BLOCK_SIZE
        /\ \A j \in Blocks : blocks[j].size = 2 * BLOCK_SIZE
        /\ sim_land - BLOCK_SIZE * Len(blocks) \in 0..(BLOCK_SIZE - 1)

\* create_blocks has divided land that leaves nearly a whole block over
C15_Witness ==
    /\ pc = "create_districts"
    /\ Len(blocks) >= 2
    /\ sim_land % BLOCK_SIZE = BLOCK_SIZE - 1

\* every block is in the list of exactly one district, once, and that is the
\* district the block names; no two districts differ by more than one block
C16_EvenPartition ==
    /\ \A j \in Blocks :
          /\ blocks[j].district \in 1..Len(districts)
          /\ \A d \in 1..Len(districts) :
                j \in Range(districts[d].blocks) <=> d = blocks[j].district
    /\ \A d \in 1..Len(districts) :
          /\ Range(districts[d].blocks) \subseteq Blocks
          /\ Cardinality(Range(districts[d].blocks)) = Len(districts[d].blocks)
    /\ \A d \in 1..Len(districts), e \in 1..Len(districts) :
          Len(districts[d].blocks) - Len(districts[e].blocks) <= 1

\* no step changes the district of a block or the blocks of a district
C16_AssignmentKept ==
    /\ Len(blocks') = Len(blocks)
    /\ Len(districts') = Len(districts)
    /\ \A j \in Blocks : blocks'[j].district = blocks[j].district
    /\ \A d \in 1..Len(districts) : districts'[d].blocks = districts[d].blocks

\* C16: once the blocks are dealt to the districts, every block belongs to
\* exactly one district, two districts differ by at most one block, and
\* neither the district of a block nor the blocks of a district ever change.
C16_PermanentEvenPartition == [](C16_EvenPartition) /\ [][C16_AssignmentKept]_vars

\* three blocks dealt to two districts, two and one, after a time step in
\* which something was built
C16_Witness ==
    /\ pc = "idle"
    /\ step >= 1
    /\ Len(blocks) = 3
    /\ Len(districts[1].blocks) = 2
    /\ Len(districts[2].blocks) = 1
    /\ \E r \in Residences : residence[r].built = step

\* household h is housed and its unit is valued above what it has
CannotAfford(h) ==
    /\ Last(household[h].housed) # 0
    /\ Lt(HasNow(h), ValueNow(Last(household[h].housed)))

\* C17: a round of moving out leaves no household that is housed, does not
\* own its unit and has less than the unit's value; it moves out no household
\* that owns its unit, whatever the unit's value, and no household that has
\* at least the unit's value.
C17_MovingOut ==
    [][pc = "move_out" =>
          \A h \in Households :
              /\ (/\ Last(household'[h].housed) # 0
                  /\ Last(household'[h].owns) = 0)
                 => Leq(Last(unit'[Last(household'[h].housed)].value),
                        Last(household'[h].has))
              /\ (Last(household[h].owns) # 0 \/ ~CannotAfford(h))
                 => /\ Last(household'[h].housed) = Last(household[h].housed)
                    /\ Last(household'[h].owns) = Last(household[h].owns)
                    /\ h \notin moved_out']_vars

\* a round of moving out has moved out a tenant that could not afford its
\* unit and has left another household housed
C17_Witness ==
    /\ pc = "demolish"
    /\ \E h \in moved_out :
          /\ Last(household[h].housed) = 0
          /\ household[h].housed[Len(household[h].housed) - 1] # 0
    /\ \E h \in Households : Last(household[h].housed) # 0

\* a value plus 5% of it
PlusFivePercent(x) == Money(x.n * 105, x.d * 100, x.e)

\* respond_to_demand is about to be called with spike 0.05 and ceiling 200
C18_Called ==
    /\ pc = "spike"
    /\ spike = [n |-> 1, d |-> 20]
    /\ Same(ceiling, Money(200, 1, 0))

\* C18: respond_to_demand with spike 0.05 and ceiling 200 leaves every unit of
\* a standing residence that was valued at most 200 with its value plus 5%,
\* leaves every unit valued above 200 as it was, and raises the current
\* price per square foot by 5%.
C18_SpikeOfFivePercent ==
    [][C18_Called =>
          /\ \A u \in Range(UnitsOf(StandingResidences)) :
                Leq(ValueNow(u), Money(200, 1, 0)) =>
                    /\ Same(Last(unit'[u].value), PlusFivePercent(ValueNow(u)))
                    /\ Len(unit'[u].value) = Len(unit[u].value)
          /\ \A u \in Units :
                ~Leq(ValueNow(u), Money(200, 1, 0)) => unit'[u] = unit[u]
          /\ Same(Last(price_sqft'), PlusFivePercent(Last(price_sqft)))
          /\ Len(price_sqft') = Len(price_sqft)]_vars

\* respond_to_demand has run with spike 0.05 and ceiling 200: units built in
\* this step at 102 are now valued 107.1, among them occupied ones, and the
\* units valued 204 and 306 are as they were
C18_Witness ==
    /\ pc = "print_stats"
    /\ spike = [n |-> 1, d |-> 20]
    /\ Same(ceiling, Money(200, 1, 0))
    /\ \E u \in Units :
          /\ Same(ValueNow(u), Money(1071, 10, 0))
          /\ Last(unit[u].occ) # 0
    /\ \E u \in Units : Same(ValueNow(u), Money(204, 1, 0))
    /\ \E u \in Units : Same(ValueNow(u), Money(306, 1, 0))
    /\ Same(Last(price_sqft), Money(1071, 10 * MIN_RES_SIZE, 0))

\* the households that the round of moving in about to run passes to match
ConsideredNow ==
    LET ua0 == UnitsAvailable
        hh0 == HouseholdsSeeking
    IN  IF ua0 = <<>> \/ hh0 = <<>> THEN {}
        ELSE LET ua == AffordableUnits(ua0, hh0)
             IN  IF ua = <<>> THEN {} ELSE Range(HouseholdsConsidered(ua, hh0))

\* s is the fraction n / c brought into [0.01, 0.2]
IsClamped(s, n, c) ==
    /\ 100 * s.n >= s.d
    /\ 5 * s.n <= s.d
    /\ (100 * n >= c /\ 5 * n <= c) => s.n * c = s.d * n
    /\ 100 * n < c => 100 * s.n = s.d
    /\ 5 * n > c => 5 * s.n = s.d

\* C19: the spike that a round of moving in returns is 0 or lies in
\* [0.01, 0.2]; it is not 0 exactly when a household passed to match is still
\* unhoused, and then it is unmatched / considered brought into [0.01, 0.2]
\* and the ceiling is the largest budget of those households; otherwise the
\* ceiling is 0.
C19_SpikeAndCeiling ==
    [][pc = "move_in" /\ pc' # "aborted" =>
          LET left == {h \in ConsideredNow : Last(household'[h].housed) = 0}
          IN  /\ spike'.n = 0 \/ (100 * spike'.n >= spike'.d /\ 5 * spike'.n <= spike'.d)
              /\ spike'.n # 0 <=> left # {}
              /\ left # {} =>
                    /\ IsClamped(spike', Cardinality(left), Cardinality(ConsideredNow))
                    /\ \E h \in left : Same(ceiling', Last(household'[h].has))
                    /\ \A h \in left : Leq(Last(household'[h].has), ceiling')
              /\ left = {} => ceiling' = Zero]_vars

\* a round has returned a spike strictly between 0.01 and 0.2 and, as the
\* ceiling, the budget of an unhoused household that is not the poorest
C19_Witness ==
    /\ pc = "move_out"
    /\ 100 * spike.n > spike.d
    /\ 5 * spike.n < spike.d
    /\ \E h \in UnhousedNow : Same(HasNow(h), ceiling)
    /\ \E h \in UnhousedNow : Lt(HasNow(h), ceiling)
    /\ moved_in # {}

\* C20: occupancy is symmetric: the current occupant of a living-unit is
\* household h exactly when the unit household h is currently housed in is
\* that living-unit; so no household occupies two units and no two households
\* are housed in one unit.
C20_OccupancySymmetric ==
    /\ \A u \in Units, h \in Households :
           Last(unit[u].occ) = h <=> Last(household[h].housed) = u
    /\ \A u1, u2 \in Units :
           Last(unit[u1].occ) # 0 /\ Last(unit[u1].occ) = Last(unit[u2].occ) => u1 = u2
    /\ \A h1, h2 \in Households :
           Last(household[h1].housed) # 0
           /\ Last(household[h1].housed) = Last(household[h2].housed) => h1 = h2

\* a step has ended with two households housed in different units, one of
\* them in another unit than the one it lost earlier, and a vacated unit
C20_Witness ==
    /\ pc = "idle"
    /\ \E h1, h2 \in Households :
           /\ h1 # h2
           /\ Last(household[h1].housed) # 0
           /\ Last(household[h2].housed) # 0
           /\ \E k \in 1..Len(household[h1].housed) :
                  household[h1].housed[k] \notin {0, Last(household[h1].housed)}
    /\ \E u \in Units : Last(unit[u].occ) = 0 /\ \E k \in 1..Len(unit[u].occ) : unit[u].occ[k] # 0

\* C21: no household is unhoused and marked as owning a unit: a household
\* whose current ownership entry is set is currently housed in the unit it owns.
C21_OwnerIsHoused ==
    \A h \in Households :
        Last(household[h].owns) # 0 => Last(household[h].owns) = Last(household[h].housed)

\* a step has ended with a household that owns the unit it lives in and with
\* an unhoused household that owned a unit when the step began
C21_Witness ==
    /\ pc = "idle"
    /\ step >= 1
    /\ \E h \in Households : Last(household[h].owns) # 0
    /\ \E h \in Households :
          /\ Last(household[h].housed) = 0
          /\ Len(household[h].owns) >= 2
          /\ household[h].owns[Len(household[h].owns) - 1] # 0

\* the units that household h becomes the occupant of in the step taken
EnteredBy(h) == {u \in Units : Last(unit[u].occ) # h /\ Last(unit'[u].occ) = h}

\* the units that household h stops being the occupant of in the step taken
LeftBy(h) == {u \in Units : Last(unit[u].occ) = h /\ Last(unit'[u].occ) # h}

\* C22: within a time step a household moves in at most once and moves out at
\* most once, the moves out of round_of_moving_out and of evict_all counted
\* together: a household that moves in has not moved in before in this step
\* and enters one unit; a household that moves out has not moved out or been
\* evicted before in this step and leaves one unit.
C22_OneMoveEachWay ==
    [][\A h \in Households :
          /\ Cardinality(EnteredBy(h)) <= 1
          /\ Cardinality(LeftBy(h)) <= 1
          /\ EnteredBy(h) # {} \/ (Last(household[h].housed) = 0 /\ Last(household'[h].housed) # 0)
                => /\ h \notin moved_in
                   /\ LeftBy(h) = {}
                   /\ Last(household[h].housed) = 0
          /\ LeftBy(h) # {} \/ (Last(household[h].housed) # 0 /\ Last(household'[h].housed) = 0)
                => /\ h \notin moved_out \cup evicted
                   /\ EnteredBy(h) = {}
                   /\ Last(household'[h].housed) = 0]_vars

\* a step has ended in which one household moved in and stayed, and another
\* household lost its unit
C22_Witness ==
    /\ pc = "idle"
    /\ step >= 1
    /\ \E h \in moved_in : Last(household[h].housed) # 0
    /\ \E h \in (moved_out \cup evicted) \ moved_in : Last(household[h].housed) = 0

\* a household moved into unit u, or out of the unit u it had when the step
\* began, in the current step
MovedAt(u) ==
    \/ \E h \in moved_in : Last(household[h].housed) = u
    \/ \E h \in moved_out \cup evicted :
          Len(household[h].housed) >= 2 /\ household[h].housed[Len(household[h].housed) - 1] = u

\* the entry before the current one
Before(s) == s[Len(s) - 1]

\* when a step has ended, the current entries of an entity that existed
\* before the step and that no move touched equal the entries before them
C23_UntouchedUnchanged ==
    pc = "idle" =>
        /\ \A h \in Households :
              Len(household[h].housed) >= 2 /\ h \notin moved_in \cup moved_out \cup evicted
                 => /\ Last(household[h].housed) = Before(household[h].housed)
                    /\ Last(household[h].owns) = Before(household[h].owns)
        /\ \A u \in Units :
              Len(unit[u].occ) >= 2 /\ ~MovedAt(u)
                 => /\ Last(unit[u].occ) = Before(unit[u].occ)
                    /\ Last(unit[u].owned_by) = Before(unit[u].owned_by)

\* the statements of a step that come before its rounds of moving
BeforeTheRounds ==
    pc \in {"idle", "update_blocks", "update_units", "update_households", "inflate",
            "arrive", "develop", "build"}

\* list s becomes list t: the entries of s but the last are kept, the last is
\* kept too when keep holds, and every entry added is a copy of s's last entry
Mirrored(s, t, keep) ==
    /\ Len(t) >= Len(s)
    /\ \A k \in 1..(Len(s) - 1) : t[k] = s[k]
    /\ keep => t[Len(s)] = s[Len(s)]
    /\ \A k \in (Len(s) + 1)..Len(t) : t[k] = Last(s)

\* no statement changes an entry of occ, owned_by, housed or owns other than
\* the current one, none changes the current one before the rounds of moving
\* of the step, the updates of a step add an entry to every unit and household,
\* and every entry added is a copy of the entry before it
C23_RecordedEntriesKept ==
    /\ \A u \in Units :
          /\ Mirrored(unit[u].occ, unit'[u].occ, BeforeTheRounds)
          /\ Mirrored(unit[u].owned_by, unit'[u].owned_by, BeforeTheRounds)
          /\ pc = "update_units" => Len(unit'[u].occ) > Len(unit[u].occ)
          /\ pc # "update_units" => Len(unit'[u].occ) = Len(unit[u].occ)
    /\ \A h \in Households :
          /\ Mirrored(household[h].housed, household'[h].housed, BeforeTheRounds)
          /\ Mirrored(household[h].owns, household'[h].owns, BeforeTheRounds)
          /\ pc = "update_households" => Len(household'[h].housed) = Len(household[h].housed) + 1
          /\ pc # "update_households" => Len(household'[h].housed) = Len(household[h].housed)

\* C23: an entity that no move touches in a step ends the step with the
\* housed-unit and ownership entries (a household) or the occupant and owner
\* entries (a living-unit) with which it began it, and a step changes no entry
\* recorded for an earlier step.
C23_MirrorForward == [](C23_UntouchedUnchanged) /\ [][C23_RecordedEntriesKept]_vars

\* a step has ended with a housed household and an occupied unit that no
\* move touched, next to a unit that a household moved into or out of
C23_Witness ==
    /\ pc = "idle"
    /\ step >= 1
    /\ \E h \in Households \ (moved_in \cup moved_out \cup evicted) :
          Len(household[h].housed) >= 2 /\ Last(household[h].housed) # 0
    /\ \E u \in Units : Len(unit[u].occ) >= 2 /\ ~MovedAt(u) /\ Last(unit[u].occ) # 0
    /\ \E u \in Units : Len(unit[u].occ) >= 2 /\ MovedAt(u)

\* C24: a round of moving in that finds no unhoused household, or no vacant
\* unit, returns a spike of 0 and a ceiling of 0, changes no unit and no
\* household, and the caller goes on with what follows the round.
C24_NobodySeekingIsNoError ==
    [][pc = "move_in" /\ (HouseholdsSeeking = <<>> \/ UnitsAvailable = <<>>) =>
          /\ pc' = IF step = 0 THEN "print_stats" ELSE "move_out"
          /\ spike' = [n |-> 0, d |-> 1]
          /\ ceiling' = Zero
          /\ UNCHANGED << unit, household >>]_vars

\* a block whose current zoning level is not set
Unzoned(j) == Last(blocks[j].zoned_as) = 0

\* C25: a round of developing over blocks of which one is not zoned ends in
\* the ValueError of min_res_size, whatever the Council approves: it never
\* returns to its caller.
C25_UnzonedRoundAborts ==
    [][pc = "build" /\ (\E j \in Blocks : Unzoned(j)) => pc' \in {"build", "aborted"}]_vars

\* C26: with land that is not positive, __init__ makes no block, no district,
\* no residence and no household, and does not go on to its rounds of
\* development with an empty list of blocks.
C26_NoLandIsRejected ==
    sim_land <= 0 =>
        /\ blocks = <<>>
        /\ districts = <<>>
        /\ residence = <<>>
        /\ household = <<>>
        /\ pc # "develop"

\* C27: a call of demolish that the Council denies leaves the residence in
\* the current list of its block with demolished unset, and leaves the
\* occupants, owners and values of its units and the housed and owns lists of
\* its occupants as they were.
C27_DeniedDemolitionChangesNothing ==
    [][pc = "demolishing" /\ todo # <<>> /\ Head(todo) \notin approved' =>
          LET r == Head(todo)
              j == residence[r].block
          IN  /\ r \in Range(Last(blocks[j].residences))
              /\ Last(blocks'[j].residences) = Last(blocks[j].residences)
              /\ residence[r].demolished = -1
              /\ residence'[r] = residence[r]
              /\ \A u \in Range(residence[r].units) :
                    /\ unit'[u] = unit[u]
                    /\ Last(unit[u].occ) # 0 =>
                          household'[Last(unit[u].occ)] = household[Last(unit[u].occ)]]_vars

\* the demolition of a residence with an occupied unit has just been denied
C27_Witness ==
    /\ pc = "demolishing"
    /\ r_acc # <<>>
    /\ Last(r_acc) \notin approved
    /\ Last(r_acc) \in Range(Last(blocks[residence[Last(r_acc)].block].residences))
    /\ residence[Last(r_acc)].demolished = -1
    /\ \E u \in Range(residence[Last(r_acc)].units) : Last(unit[u].occ) # 0

\* how often residence r is in the entries of residences_demolished
TimesRecorded(r) ==
    Len(SelectSeq(Flatten(residences_demolished), LAMBDA x : x = r))

\* C28: after a step, a residence is in residences_demolished exactly when
\* its demolished step is set, it is there once, and a residence demolished
\* in the step that has just ended is in the entry written last.
C28_RecordHoldsTheDemolished ==
    pc = "idle" =>
        \A r \in Residences :
            /\ TimesRecorded(r) = (IF residence[r].demolished # -1 THEN 1 ELSE 0)
            /\ residence[r].demolished = step =>
                  /\ residences_demolished # <<>>
                  /\ r \in Range(Last(residences_demolished))

\* the number of units of the residence of unit u
UnitsInResidenceOf(u) == Len(residence[unit[u].residence].units)

\* C29: a unit that has or ever had an owner is the only unit of its
\* residence; no entry of owned_by of a unit of a residence of two or more
\* units is ever set, so no move into such a unit makes an owner.
C29_OwnersInSingleUnitResidencesOnly ==
    \A u \in Units :
        /\ residence[unit[u].residence].floors = 1 <=> UnitsInResidenceOf(u) = 1
        /\ \A k \in 1..Len(unit[u].owned_by) :
              unit[u].owned_by[k] # 0 => UnitsInResidenceOf(u) = 1

\* in one round of moving in a household has become the owner of a
\* single-unit residence and another has moved into a residence of two units
C29_Witness ==
    /\ \E h \in moved_in :
          /\ Last(household[h].owns) # 0
          /\ UnitsInResidenceOf(Last(household[h].owns)) = 1
    /\ \E h \in moved_in :
          /\ Last(household[h].housed) # 0
          /\ UnitsInResidenceOf(Last(household[h].housed)) >= 2
          /\ Last(household[h].owns) = 0

\* C30: every district has one zoning entry for each step from 0 to the
\* current one; the entry of step t is the level that the district's zoning
\* dictionary gives for t if it has the key t, and the entry of step t - 1
\* otherwise.
C30_ZoningFollowsTheDictionary ==
    \A d \in 1..Len(districts) :
        /\ Len(districts[d].zoned_as) = step + 1
        /\ \A t \in 0..step :
              IF t \in DOMAIN zoning[d]
              THEN districts[d].zoned_as[t + 1] = zoning[d][t]
              ELSE t >= 1 /\ districts[d].zoned_as[t + 1] = districts[d].zoned_as[t]

\* after two steps, a district that was rezoned at step 1 and kept its level
\* at step 2, the dictionary having no key 2
C30_Witness ==
    /\ step = 2
    /\ \E d \in 1..Len(districts) :
          /\ 1 \in DOMAIN zoning[d]
          /\ 2 \notin DOMAIN zoning[d]
          /\ districts[d].zoned_as[2] # districts[d].zoned_as[1]
          /\ districts[d].zoned_as[3] = districts[d].zoned_as[2]

\* C31: a round of developing calls build for a block exactly when the area
\* available on the block is at least min_res_size(), a block with exactly
\* that much area included.
C31_OfferedWhenTheMinimumFits ==
    [][pc = "develop" =>
          \A j \in Blocks :
              j \in Range(todo') <=> area_avail(blocks[j]) >= min_res_size(blocks[j])]_vars

\* every residence built under zoning 1 has 1 floor and 1 unit; every
\* residence built under zoning L >= 2 has 2 to L floors and at least as many
\* units as floors
C32_FloorsAndUnits ==
    \A r \in Residences :
        /\ residence[r].zoned_as >= 1
        /\ residence[r].zoned_as = 1 =>
              residence[r].floors = 1 /\ Len(residence[r].units) = 1
        /\ residence[r].zoned_as >= 2 =>
              /\ residence[r].floors \in 2..residence[r].zoned_as
              /\ Len(residence[r].units) >= residence[r].floors

\* a residence is built with the current zoning of its block, and its floors,
\* size, zoning, block and units stay as they were built; no unit changes
\* its residence
C32_ResidenceKept ==
    /\ \A r \in Residences :
          /\ residence'[r].floors = residence[r].floors
          /\ residence'[r].size = residence[r].size
          /\ residence'[r].zoned_as = residence[r].zoned_as
          /\ residence'[r].block = residence[r].block
          /\ residence'[r].units = residence[r].units
    /\ \A r \in (1..Len(residence')) \ Residences :
          residence'[r].zoned_as = Last(blocks[residence'[r].block].zoned_as)
    /\ \A u \in Units : unit'[u].residence = unit[u].residence

\* C32: a residence built under zoning 1 has 1 floor and 1 unit, one built
\* under zoning L >= 2 has 2 to L floors and at least as many units as floors,
\* and the floors, size, zoning and units of a residence never change, also
\* not when its block is rezoned.
C32_ResidenceShape == [](C32_FloorsAndUnits) /\ [][C32_ResidenceKept]_vars

\* a residence of 3 floors and more than 3 units, built under a zoning that
\* its block has lost since
C32_Witness ==
    \E r \in Residences :
        /\ residence[r].floors = 3
        /\ Len(residence[r].units) > 3
        /\ Last(blocks[residence[r].block].zoned_as) # residence[r].zoned_as
        /\ r \in Range(Last(blocks[residence[r].block].residences))

\* the statements that may follow statement p within __init__ and time_step:
\* zoning (on leaving "idle"), updates, inflation, arrivals, construction,
\* moving in, moving out, demolition, spike
Following(p) ==
    CASE p = "idle" -> {"update_blocks"}
      [] p = "update_blocks" -> {"update_units"}
      [] p = "update_units" -> {"update_households"}
      [] p = "update_households" -> {"inflate"}
      [] p = "inflate" -> {"arrive"}
      [] p = "arrive" -> IF step = 0 THEN {"move_in"} ELSE {"develop"}
      [] p = "develop" -> {"build"}
      [] p = "build" -> IF step = 0 THEN {"build", "develop", "arrive", "aborted"}
                        ELSE {"build", "move_in", "aborted"}
      [] p = "move_in" -> IF step = 0 THEN {"print_stats", "aborted"} ELSE {"move_out", "aborted"}
      [] p = "move_out" -> {"demolish"}
      [] p = "demolish" -> {"demolishing", "spike"}
      [] p = "demolishing" -> {"demolishing", "spike"}
      [] p = "spike" -> {"print_stats"}
      [] p = "print_stats" -> {"idle", "aborted"}
      [] OTHER -> {}

\* when round_of_moving_in is about to run in a time step, the households
\* that arrived in this step are among the households seeking, and the units
\* of the residences built in this step are among the units of the simulation,
\* the vacant ones among the units available
C33_NewcomersTakePart ==
    pc = "move_in" /\ step >= 1 =>
        /\ \A h \in Households :
              household[h].arrived = step => h \in Range(HouseholdsSeeking)
        /\ \A r \in Residences :
              residence[r].built = step =>
                  \A u \in Range(residence[r].units) :
                      /\ u \in Range(sim_units)
                      /\ Last(unit[u].occ) = 0 => u \in Range(UnitsAvailable)

\* the statements follow one another in the order of time_step; only the
\* steps of a round of demolishing change a block's standing residences
\* after the round of moving in, so the demolition comes before the spike;
\* the spike and ceiling that round_of_moving_in returned reach
\* respond_to_demand as they were, and the price rises by that spike
C33_InOrder ==
    /\ pc' \in Following(pc) \cup {pc}
    /\ pc \in {"move_out", "demolish", "demolishing", "spike"} =>
          /\ spike' = spike
          /\ ceiling' = ceiling
    /\ pc = "spike" =>
          /\ blocks' = blocks
          /\ price_sqft' = IF spike.n # 0 /\ ceiling.n # 0
                           THEN SetLast(price_sqft, Spiked(Last(price_sqft), spike))
                           ELSE price_sqft

Unmatched(h, u) ==
    /\ Last(household[h].housed) = 0
    /\ u \in Range(sim_units)
    /\ Last(unit[u].occ) = 0

\* C34: immediately after a round of moving in no unhoused household can
\* afford any vacant unit of a standing residence.
C34_NoAffordableVacancy ==
    AfterMovingIn =>
        \A h \in Households, u \in Units :
            Unmatched(h, u) => ~Leq(Last(unit[u].value), Last(household[h].has))

\* a round of moving in has housed a household and has left a household
\* unhoused and a unit vacant, one too dear for the other
C34_Witness ==
    /\ AfterMovingIn
    /\ moved_in # {}
    /\ \E h \in Households, u \in Units : Unmatched(h, u)

\* ua as round_of_moving_in passes it to match, or empty when it returns before
UnitsForMatch ==
    IF UnitsAvailable = <<>> \/ HouseholdsSeeking = <<>> THEN <<>>
    ELSE AffordableUnits(UnitsAvailable, HouseholdsSeeking)

\* hh as round_of_moving_in passes it to match, or empty when it returns before
HouseholdsForMatch ==
    IF UnitsForMatch = <<>> THEN <<>>
    ELSE HouseholdsConsidered(UnitsForMatch, HouseholdsSeeking)

\* hh_remaining when match is called in this state
RemainingAfterMatch == {h \in Range(HouseholdsForMatch) : Last(household'[h].housed) = 0}

\* when round_of_moving_in calls match, hh[0] moves into ua[0] and fewer
\* households remain than were passed
C35_HeadsAreMatched ==
    pc = "move_in" /\ pc' # "move_in" /\ HouseholdsForMatch # <<>> =>
        /\ Last(household'[Head(HouseholdsForMatch)].housed) = Head(UnitsForMatch)
        /\ Last(unit'[Head(UnitsForMatch)].occ) = Head(HouseholdsForMatch)
        /\ Head(HouseholdsForMatch) \in moved_in'
        /\ Cardinality(RemainingAfterMatch) < Len(HouseholdsForMatch)

\* C35: whenever match is called with the non-empty lists that
\* round_of_moving_in prepares, the richest considered household moves into the
\* dearest considered unit, so a household is housed and fewer households
\* remain than were considered.
C35_RichestTakesDearest == [][C35_HeadsAreMatched]_vars

\* match has housed two or more of the considered households, the richest in
\* the dearest unit there is, and has left another of them unhoused
C35_Witness ==
    /\ AfterMovingIn
    /\ Cardinality(moved_in) >= 2
    /\ ceiling.n # 0
    /\ \E h \in moved_in :
          /\ \A g \in Households : Leq(Last(household[g].has), Last(household[h].has))
          /\ \A u \in Range(sim_units) :
                Leq(Last(unit[u].value), Last(unit[Last(household[h].housed)].value))

\* the value Unit.__init__ gave each unit of residence r: its share of the
\* interior at the price per square foot of the step it was built in
ValueWhenBuilt(r) ==
    LET p == residence[r].price_when_built
    IN  Money(residence[r].size * residence[r].floors * p.n,
              2 * Len(residence[r].units) * p.d, p.e)

\* the units of each residence have one current value and value lists of one length
C36_EqualValues ==
    \A r \in Residences :
        \A u, v \in Range(residence[r].units) :
            /\ Same(Last(unit[u].value), Last(unit[v].value))
            /\ Len(unit[u].value) = Len(unit[v].value)

\* respond_to_demand spikes a unit of residences[-1] exactly when the unit's
\* own value is at or below the ceiling
C36_SpikedByOwnValue ==
    pc = "spike" /\ spike.n # 0 /\ ceiling.n # 0 =>
        \A u \in Range(UnitsOf(sim_residences)) :
            /\ Leq(Last(unit[u].value), ceiling) => unit'[u] = UnitSpike(unit[u], spike)
            /\ ~Leq(Last(unit[u].value), ceiling) => unit'[u] = unit[u]

IsDemolished(r) == residence[r].demolished # -1

\* a demolished residence is on no block's current list of residences, is not
\* selected by round_of_demolishing, and its units are vacant and unowned with
\* no household housed in them or owning them
C37_GoneAndEmpty ==
    \A r \in Residences :
        IsDemolished(r) =>
            /\ residence[r].demolished <= step
            /\ \A j \in Blocks :
                  /\ r \notin Range(Last(blocks[j].residences))
                  /\ r \notin Range(ToDemolish(j))
            /\ pc = "demolishing" => r \notin Range(todo)
            /\ \A u \in Range(residence[r].units) :
                  /\ Last(unit[u].occ) = 0
                  /\ Last(unit[u].owned_by) = 0
                  /\ \A h \in Households :
                        /\ Last(household[h].housed) # u
                        /\ Last(household[h].owns) # u

\* the step recorded for a demolition is not assigned again, and no statement
\* puts the residence into the units or residences that the step works on
C37_StaysDemolished ==
    \A r \in Residences :
        IsDemolished(r) =>
            /\ residence'[r].demolished = residence[r].demolished
            /\ r \in Range(sim_residences') => r \in Range(sim_residences)
            /\ \A u \in Range(residence[r].units) :
                  u \in Range(sim_units') => u \in Range(sim_units)

\* a later step has rebuilt the lists of standing residences and units
\* without the residences demolished before it
C37_LeftOutLater ==
    \A r \in Residences :
        IsDemolished(r) /\ residence[r].demolished < step
        /\ pc \in {"move_in", "move_out", "demolish", "demolishing", "spike", "print_stats", "idle"} =>
            /\ r \notin Range(sim_residences)
            /\ \A u \in Range(residence[r].units) : u \notin Range(sim_units)

\* C37: a demolished residence stays demolished and uninhabited: its
\* demolition step never changes, it is in no later list of standing
\* residences, it is not selected for demolition again, and its units stay
\* vacant and unowned with no household housed in them.
C37_DemolishedForGood ==
    [](C37_GoneAndEmpty /\ C37_LeftOutLater) /\ [][C37_StaysDemolished]_vars

\* the step after a demolition has ended: the residence was inhabited when it
\* was demolished, and its block is still zoned above it
C37_Witness ==
    /\ pc = "idle"
    /\ \E r \in Residences :
          /\ IsDemolished(r)
          /\ residence[r].demolished < step
          /\ underzoned(residence[r])
          /\ \E u \in Range(residence[r].units) :
                \E k \in 1..Len(unit[u].occ) : unit[u].occ[k] # 0

=============================================================================
